---- MODULE Spec2Model ----
(***************************************************************************)
(* Fleet gateway (server/src/index_ws.ts): the per-homebase connection     *)
(* supervisor HomebaseWS, its request queue and in-flight cap, the status  *)
(* cache with change detection, and the fan-out to browser sessions.       *)
(*                                                                         *)
(* One step of the model is one callback of the Node.js event loop (a      *)
(* socket event, a timer firing, an API call), run to completion.          *)
(*                                                                         *)
(* Modelling conventions                                                   *)
(*  - A string the code splits or joins is the sequence of its pieces, the  *)
(*    separators "/" and "|" being pieces of their own: "ess/git/branch"   *)
(*    is <<"ess","/","git","/","branch">>, and "" is <<>>. Concatenation   *)
(*    is \o.                                                               *)
(*  - A JS value that may be a number or a string is a record              *)
(*    [t |-> "num", n |-> 1] or [t |-> "str", s |-> "1"].                  *)
(*  - genRequestId (time stamp + random suffix) yields a token that is in  *)
(*    use nowhere else; the model takes the least token that is neither in *)
(*    the pending table nor retired by the running callback.               *)
(*  - Fields that only feed console output (openedThisAttempt,             *)
(*    connectTimedOut, lastErrorCode, lastUrl, sys_time stamps) are left   *)
(*    out, as are the timers that stay armed after their request was       *)
(*    answered: their callback finds the requestId gone and does nothing.  *)
(*  - Of refreshTimer and pollJuicerTimer the arming and clearing is        *)
(*    modelled; the requests the juicer poll issues are among the eval     *)
(*    calls of the callers, and are told apart in SpecCallers.             *)
(*  - Time passes in steps of its own (TimePasses), between callbacks. The  *)
(*    specifications that have no such step explore the callbacks at one   *)
(*    instant; the one clock reading that decides a branch there, the      *)
(*    stale watchdog's silentFor, is an input of the tick.                 *)
(*  - A timer field is TRUE while it refers to a timer that can still fire; *)
(*    the link's live field counts, per timer, the instances created and   *)
(*    neither cleared nor expired, up to MaxTimerInstances.                *)
(*  - Math.random() is a number of thousandths, 0..999.                     *)
(*  - consecutiveFailures grows without bound in the code, which reads it   *)
(*    only through consecutiveFailures - slowPhaseStartFailures. The model *)
(*    counts it up to MaxFailures and from there on lowers                 *)
(*    slowPhaseStartFailures instead, which keeps the difference exact up  *)
(*    to MaxFailures; reconnectAttempts, which only feeds the log, is left *)
(*    out.                                                                 *)
(***************************************************************************)
EXTENDS Integers, Sequences, FiniteSets, TLC

VARIABLES
    homebaseConnections, \* registry: the hosts that have a HomebaseWS
    link,                \* host -> the fields of its HomebaseWS
    statusData,          \* the status snapshot array
    commStatus,          \* the comm-status snapshot array
    perfStatsData,       \* the perf-stats snapshot array
    wss,                 \* whether the browser WebSocketServer exists
    clients,             \* browser socket -> readyState
    sendThrows,          \* the browser sockets whose send() throws
    running,             \* the process has not been ended by an uncaught exception
    dbCommStatus,        \* the addresses of the rows of the store's comm_status table
    pingResults,         \* device -> its rolling window of probe samples
    commStatusRow,       \* device -> the aggregates of its comm_status row
    probeLog,            \* device -> the samples of all its probes (history)
    notificationClients, \* kind of notification client -> how many of them exist
    retryTimers,         \* pending setTimeout(connectNotificationClient, 5000)
    store,               \* whether the store is reachable, and its outages so far
    losses,              \* the kinds of notification connection loss so far (history)
    finished,            \* requestId -> how its last request left the pending table (history)
    out,                 \* what the last callback did to the outside world
    hist,                \* the translated datapoint updates processed so far
    now                  \* Date.now(), in ms since the process started

vars == <<homebaseConnections, link, statusData, commStatus, perfStatsData,
          wss, clients, sendThrows, running, dbCommStatus, pingResults,
          commStatusRow, probeLog,
                   notificationClients, retryTimers, store, losses, finished,
                   out, hist, now>>

----------------------------------------------------------------------------
(* Program constants *)

maxQueueSize == 200
maxInFlight == 8
maxChunkTotal == 2000
connectTimeoutMs == 8000
heartbeatIntervalMs == 10000
heartbeatTimeoutMs == 5000
staleMs == 30000
DefaultTimeoutMs == 10000
fastRetryWindowMs == 300000
fastRetryBaseMs == 2000
fastRetryJitterMs == 1000
slowBaseBackoffMs == 15000
slowMaxBackoffMs == 120000
slowJitterMs == 2000
DEFAULT_SUBSCRIBE_EVERY == 1

HOMEBASE_SUBSCRIPTIONS ==
    << <<"system","/","hostname">>, <<"system","/","hostaddr">>,
       <<"system","/","os">>, <<"ess","/","subject">>,
       <<"ess","/","project">>, <<"ess","/","system">>,
       <<"ess","/","protocol">>, <<"ess","/","variant">>,
       <<"ess","/","systems">>, <<"ess","/","protocols">>,
       <<"ess","/","variants">>, <<"ess","/","state">>,
       <<"ess","/","status">>, <<"ess","/","running">>,
       <<"ess","/","remote">>, <<"ess","/","name">>, <<"ess","/","ipaddr">>,
       <<"ess","/","rmt_host">>, <<"ess","/","rmt_connected">>,
       <<"ess","/","obs_active">>, <<"ess","/","in_obs">>,
       <<"ess","/","obs_id">>, <<"ess","/","obs_total">>,
       <<"ess","/","obs_count">>, <<"ess","/","data_dir">>,
       <<"ess","/","datafile">>, <<"ess","/","lastfile">>,
       <<"ess","/","system_path">>, <<"ess","/","executable">>,
       <<"ess","/","git","/","status">>, <<"ess","/","git","/","branches">>,
       <<"ess","/","git","/","branch">>, <<"ess","/","git","/","tag">>,
       <<"ess","/","loading_start_time">>, <<"ess","/","loading_progress">>,
       <<"ess","/","loading_operation_id">>, <<"ess","/","variant_info">>,
       <<"ess","/","param_settings">>, <<"ess","/","params">>,
       <<"ess","/","time">>, <<"ess","/","block_id">>,
       <<"ess","/","warningInfo">>, <<"@keys">> >>

----------------------------------------------------------------------------
(* Bounds of the model *)

MaxSock == 2          \* WebSocket objects of one link that can coexist
MaxOutstanding == 3   \* requests a caller population keeps unsettled at once
MaxUpdates == 3       \* datapoint frames in one explored stream
NumClients == 2       \* browser sockets
MaxFailures == 4      \* failed attempts in a row that are told apart
MaxTimerInstances == 2 \* live instances of one timer that are told apart
MaxLinks == 2         \* HomebaseWS objects of one address that are told apart

Hosts == {"10.0.0.1", "10.0.0.2"}
Devices == {"rig1", "rig2"}
SockIds == 1..MaxSock
NoSocket == 0
ClientIds == 1..NumClients
RequestIds == 1..(maxInFlight + 2)
NoRequestId == 0
Undefined == "<undefined>"
NoTime == -1
NoStamp == -1
NoLatency == -1
NoCount == -1
Randoms == {0, 999}
Callers == {"a", "b"}
Scripts == {"ess::start"}

EmptyMap == [x \in {} |-> 0]

Min(S) == CHOOSE x \in S : \A y \in S : x <= y
Max(S) == CHOOSE x \in S : \A y \in S : x >= y

----------------------------------------------------------------------------
(* JavaScript conversions used by the code *)

\* Number(s): the strings the model feeds in, and what they parse to.
Number(s) ==
    CASE s = "0"   -> [nan |-> FALSE, n |-> 0]
      [] s = "1"   -> [nan |-> FALSE, n |-> 1]
      [] s = "1.0" -> [nan |-> FALSE, n |-> 1]
      [] s = "2"   -> [nan |-> FALSE, n |-> 2]
      [] s = ""    -> [nan |-> FALSE, n |-> 0]
      [] OTHER     -> [nan |-> TRUE,  n |-> 0]

\* Number(s) || 0
NumberOrZero(s) == IF Number(s).nan THEN 0 ELSE Number(s).n

\* String(n) for the small integers of the model
String(n) ==
    CASE n = 0 -> "0" [] n = 1 -> "1" [] n = 2 -> "2" [] n = 3 -> "3"
      [] n = 4 -> "4" [] n = 5 -> "5" [] n = 6 -> "6" [] n = 7 -> "7"
      [] n = 8 -> "8" [] n = 9 -> "9"

\* s.toLowerCase() on one segment
toLowerCase(s) ==
    CASE s = "ESS" -> "ess"
      [] s = "Git" -> "git"
      [] s = "OBS_ACTIVE" -> "obs_active"
      [] s = "IN_OBS" -> "in_obs"
      [] s = "@KEYS" -> "@keys"
      [] OTHER -> s

Num(n) == [t |-> "num", n |-> n, s |-> ""]
Str(s) == [t |-> "str", n |-> 0, s |-> s]

----------------------------------------------------------------------------
(* The fields of a HomebaseWS right after its constructor *)

\* The timers startHeartbeat and its ping callback create
HeartbeatTimers ==
    {"heartbeatTimer", "heartbeatTimeoutHandle", "staleCheckTimer",
     "refreshTimer", "pollJuicerTimer"}

\* A new link; constructed counts the HomebaseWS objects made for the address,
\* up to MaxLinks (the registry holds the last one); live counts, per timer, the instances that were created and
\* have neither been cleared nor, for a timeout, fired
NewLink ==
    [ ws |-> NoSocket,
      socks |-> [s \in SockIds |-> "NONE"],
      connecting |-> FALSE,
      reconnectTimer |-> FALSE,
      firstDisconnectAtMs |-> NoTime,
      slowPhaseStartFailures |-> NoCount,
      consecutiveFailures |-> 0,
      slowScheduled |-> 0,
      lastMessageAt |-> 0,
      connectTimeoutHandle |-> FALSE,
      heartbeatTimer |-> FALSE,
      heartbeatTimeoutHandle |-> FALSE,
      staleCheckTimer |-> FALSE,
      refreshTimer |-> FALSE,
      pollJuicerTimer |-> FALSE,
      requestMap |-> EmptyMap,
      currentInFlight |-> 0,
      evalQueue |-> <<>>,
      lastValues |-> EmptyMap,
      chunkBuffers |-> EmptyMap,
      live |-> [t \in HeartbeatTimers |-> 0],
      reconnectPending |-> 0,
      constructed |-> 0 ]

\* The four channels the notification client registers for
Channels ==
    <<"status_changes", "comm_status_changes", "perf_stats_changes", "new_image">>

\* The channels of the first k LISTEN queries
Listening(k) == {Channels[i] : i \in 1..k}

\* How many of the four LISTEN queries succeed when the registration fails
FailedAfter == {0, 3}

\* The kinds of notification client: its connect() is pending, its LISTEN
\* queries are pending, it is connected and subscribed to some channels, or
\* its end() is pending
ClientKinds ==
    {[phase |-> "connecting", channels |-> {}],
     [phase |-> "registering", channels |-> {}],
     [phase |-> "ending", channels |-> {}]}
    \cup {[phase |-> "connected", channels |-> Listening(k)] :
              k \in FailedAfter \cup {4}}

Connecting == [phase |-> "connecting", channels |-> {}]
Registering == [phase |-> "registering", channels |-> {}]
Ending == [phase |-> "ending", channels |-> {}]
Connected(k) == [phase |-> "connected", channels |-> Listening(k)]

NoClients == [k \in ClientKinds |-> 0]

NoOutput ==
    [ op |-> [name |-> "init"], settled |-> <<>>, events |-> <<>>,
      frames |-> <<>>, sent |-> <<>>, dispatched |-> <<>>, armed |-> <<>> ]

Init ==
    /\ homebaseConnections = {}
    /\ link = [h \in Hosts |-> NewLink]
    /\ statusData = <<>>
    /\ commStatus = <<>>
    /\ perfStatsData = <<>>
    /\ wss = FALSE
    /\ clients = [c \in ClientIds |-> "NONE"]
    /\ sendThrows = {}
    /\ running = TRUE
    /\ dbCommStatus = {}
    /\ pingResults = [d \in Devices |-> <<>>]
    /\ commStatusRow = [d \in Devices |->
                           [ping_avg |-> 0, ping_success |-> 0,
                            last_ping |-> NoStamp, server_time |-> NoStamp]]
    /\ probeLog = [d \in Devices |-> <<>>]
    /\ notificationClients = [NoClients EXCEPT ![Connecting] = 1]
    /\ retryTimers = 0
    /\ store = [reachable |-> TRUE, outages |-> 0]
    /\ losses = {}
    /\ finished = EmptyMap
    /\ out = NoOutput
    /\ hist = <<>>
    /\ now = 0

(* The world a callback of host h's link runs in: the link's fields (L),   *)
(* the shared snapshot (sd), the outputs it produces, the messages it hands *)
(* to handleMessage (dispatched), the timers it arms with their delays     *)
(* (armed), and the requestIds it has taken out of the pending table       *)
(* (retired).                                                              *)
World(h) ==
    [ host |-> h, L |-> link[h], sd |-> statusData,
      settled |-> <<>>, events |-> <<>>, frames |-> <<>>, sent |-> <<>>,
      dispatched |-> <<>>, armed |-> <<>>, hist |-> hist, retired |-> {} ]

\* The callback has run once and left the world W: its effects become the
\* next state.
Effects(W, op) ==
    \E w \in {W} :
        /\ link' = [link EXCEPT ![w.host] = w.L]
        /\ statusData' = w.sd
        /\ hist' = w.hist
        /\ out' = [ op |-> op, settled |-> w.settled, events |-> w.events,
                    frames |-> w.frames, sent |-> w.sent,
                    dispatched |-> w.dispatched, armed |-> w.armed ]
        /\ UNCHANGED <<commStatus, perfStatsData, wss, clients, sendThrows,
                       running, dbCommStatus, pingResults,
                       commStatusRow, probeLog,
                       notificationClients, retryTimers, store, losses, now>>

Commit(W, op) == Effects(W, op) /\ UNCHANGED finished

\* The same, with the history of the requestIds kept: the ids the callback
\* took out of the pending table are noted with the way they left it; an id
\* that is pending again is forgotten.
CommitTracked(W, op, how) ==
    /\ Effects(W, op)
    /\ finished' =
          [id \in ((DOMAIN finished \cup W.retired) \ DOMAIN W.L.requestMap)
                  \ (IF op.name = "lateTimeout" THEN {op.requestId} ELSE {})
              |-> IF id \in W.retired THEN how ELSE finished[id]]

IsOpen(L) == L.ws # NoSocket /\ L.socks[L.ws] = "OPEN"
IsConnecting(L) == L.ws # NoSocket /\ L.socks[L.ws] = "CONNECTING"

\* terminate() that leaves the socket as it is
terminateNothing(L) == L

\* ws.terminate() on this.ws: the socket is torn down, its close event follows
terminate(L) ==
    IF L.ws # NoSocket /\ L.socks[L.ws] \in {"CONNECTING", "OPEN"}
    THEN [L EXCEPT !.socks[L.ws] = "CLOSING"]
    ELSE L

----------------------------------------------------------------------------
(* Fan-out to browser sessions *)

RECURSIVE SendToOpenClients(_, _, _)
\* wss.clients.forEach: one frame to each client whose readyState is OPEN, in
\* the order of the set, from client c on. A send() that throws ends the
\* forEach: the exception is caught by the try block around it.
SendToOpenClients(c, eventType, data) ==
    IF c > NumClients THEN <<>>
    ELSE IF clients[c] = "OPEN" /\ c \in sendThrows THEN <<>>
    ELSE (IF clients[c] = "OPEN"
          THEN << [to |-> c, type |-> eventType, data |-> data] >>
          ELSE <<>>)
         \o SendToOpenClients(c + 1, eventType, data)

\* broadcastToWebSocketClients(eventType, data), called from a link callback
broadcastToWebSocketClients(W, eventType, data) ==
    [W EXCEPT !.events = Append(@, [type |-> eventType, data |-> data]),
              !.frames = IF wss THEN @ \o SendToOpenClients(1, eventType, data)
                         ELSE @]

\* safeBroadcast with its guard inverted: it returns when the server exists
safeBroadcastInverted(W, eventType, data) ==
    [W EXCEPT !.events = Append(@, [type |-> eventType, data |-> data]),
              !.frames = IF ~wss THEN @ \o SendToOpenClients(1, eventType, data)
                         ELSE @]

\* HomebaseWS.safeBroadcast(eventType, data)
safeBroadcast(W, eventType, data) ==
    [W EXCEPT !.events = Append(@, [type |-> eventType, data |-> data]),
              !.frames = IF wss THEN @ \o SendToOpenClients(1, eventType, data)
                         ELSE @]

----------------------------------------------------------------------------
(* Status cache and snapshot *)

StatusEntry(host, source, type, value) ==
    [host |-> host, status_source |-> source, status_type |-> type,
     status_value |-> value]

\* statusData.findIndex(host, type and source equal); 0 stands for -1
findIndexStatus(sd, host, source, type) ==
    LET hits == {i \in 1..Len(sd) : /\ sd[i].host = host
                                    /\ sd[i].status_type = type
                                    /\ sd[i].status_source = source}
    IN IF hits = {} THEN 0 ELSE Min(hits)

MapSet(m, k, v) == [x \in DOMAIN m \cup {k} |-> IF x = k THEN v ELSE m[x]]

\* updateLocalStatusAndBroadcast without change detection: every update is
\* written and broadcast
updateAlwaysBroadcast(W, host, status_source, status_type, status_value) ==
    LET newVal == IF status_value.t = "num" THEN String(status_value.n)
                  ELSE status_value.s
        key == <<host, "|">> \o status_source \o <<"|">> \o status_type
        W1 == [W EXCEPT !.L.lastValues = MapSet(@, key, newVal)]
        idx == findIndexStatus(W.sd, host, status_source, status_type)
        entry == StatusEntry(host, status_source, status_type, newVal)
    IN broadcastToWebSocketClients(
           IF idx > 0 THEN [W1 EXCEPT !.sd[idx] = entry]
           ELSE [W1 EXCEPT !.sd = Append(@, entry)],
           "status_changes", entry)

\* HomebaseWS.updateLocalStatusAndBroadcast; the result is the world after it
updateLocalStatusAndBroadcast(W, host, status_source, status_type, status_value) ==
    LET newVal == IF status_value.t = "num" THEN String(status_value.n)
                  ELSE status_value.s
        key == <<host, "|">> \o status_source \o <<"|">> \o status_type
        lv == W.L.lastValues
    IN IF key \in DOMAIN lv /\ lv[key] = newVal
       THEN W
       ELSE LET W1 == [W EXCEPT !.L.lastValues = MapSet(lv, key, newVal)]
                idx == findIndexStatus(W.sd, host, status_source, status_type)
                entry == StatusEntry(host, status_source, status_type, newVal)
            IN IF idx > 0
               THEN IF W.sd[idx].status_value # newVal
                    THEN broadcastToWebSocketClients(
                             [W1 EXCEPT !.sd[idx] = entry],
                             "status_changes", entry)
                    ELSE W1
               ELSE broadcastToWebSocketClients(
                        [W1 EXCEPT !.sd = Append(@, entry)],
                        "status_changes", entry)

\* HomebaseWS.simulateConnectivityUpsert(connected)
\* A connectivity upsert that writes the cache and the snapshot but emits nothing
simulateConnectivityCacheOnly(W, connected) ==
    LET X == updateLocalStatusAndBroadcast(W, W.host, <<"ess">>, <<"connected">>,
                                           Num(connected))
    IN [X EXCEPT !.events = W.events, !.frames = W.frames]

simulateConnectivityUpsert(W, connected) ==
    updateLocalStatusAndBroadcast(W, W.host, <<"ess">>, <<"connected">>,
                                  Num(connected))

----------------------------------------------------------------------------
(* Datapoint translation *)

\* name.indexOf('/'), counted in pieces from 1; 0 stands for -1
indexOfSlash(name) ==
    LET hits == {i \in 1..Len(name) : name[i] = "/"}
    IN IF hits = {} THEN 0 ELSE Min(hits)

\* The rules of HomebaseWS.processDatapointForLogging(name, value) that turn a
\* datapoint into (status_source, status_type, status_value)
Translate(name, value) ==
    LET lowerName == [i \in 1..Len(name) |-> toLowerCase(name[i])]
        slash == indexOfSlash(name)
    IN  IF lowerName = <<"@keys">>
        THEN [source |-> <<"system">>, type |-> <<"@keys">>,
              value |-> Str(value)]
        ELSE IF Len(name) >= 4
                /\ SubSeq(lowerName, 1, 4) = <<"ess", "/", "git", "/">>
        THEN [source |-> <<"git">>, type |-> SubSeq(name, 5, Len(name)),
              value |-> Str(value)]
        ELSE IF lowerName = <<"ess", "/", "obs_active">>
        THEN [source |-> <<"ess">>, type |-> <<"in_obs">>,
              value |-> Num(NumberOrZero(value))]
        ELSE IF lowerName = <<"ess", "/", "in_obs">>
        THEN [source |-> <<"ess">>, type |-> <<"in_obs">>,
              value |-> Num(NumberOrZero(value))]
        ELSE IF slash > 1
        THEN [source |-> SubSeq(name, 1, slash - 1),
              type |-> SubSeq(name, slash + 1, Len(name)),
              value |-> Str(value)]
        ELSE [source |-> <<"system">>, type |-> name, value |-> Str(value)]

\* HomebaseWS.processDatapointForLogging(name, value)
processDatapointForLogging(W, name, value) ==
    LET t == Translate(name, value)
        W1 == updateLocalStatusAndBroadcast(W, W.host, t.source, t.type, t.value)
        newVal == IF t.value.t = "num" THEN String(t.value.n) ELSE t.value.s
    IN [W1 EXCEPT !.hist = Append(@,
            [key |-> <<W.host, t.source, t.type>>, value |-> newVal,
             emitted |-> Len(W1.events) - Len(W.events)])]

----------------------------------------------------------------------------
(* Frames to the homebase *)

\* HomebaseWS.send(obj): getOpenSocket throws unless this.ws is OPEN
CanSend(L) == IsOpen(L)

\* The subscription sweep that stops after the first key of the catalog
subscribeFirstOnly(W) ==
    IF CanSend(W.L)
    THEN [W EXCEPT !.sent = Append(@,
            [cmd |-> "subscribe", match |-> HOMEBASE_SUBSCRIPTIONS[1],
             every |-> DEFAULT_SUBSCRIBE_EVERY])]
    ELSE W

\* HOMEBASE_SUBSCRIPTIONS.forEach(m => this.subscribe(m, DEFAULT_SUBSCRIBE_EVERY));
\* subscribe catches the throw of send, and no send changes the socket
subscribeAll(W) ==
    IF CanSend(W.L)
    THEN [W EXCEPT !.sent = @ \o
            [i \in 1..Len(HOMEBASE_SUBSCRIPTIONS) |->
                [cmd |-> "subscribe", match |-> HOMEBASE_SUBSCRIPTIONS[i],
                 every |-> DEFAULT_SUBSCRIBE_EVERY]]]
    ELSE W

\* HOMEBASE_SUBSCRIPTIONS.forEach(m => this.touch(m)); touch catches the throw
touchAll(W) ==
    IF CanSend(W.L)
    THEN [W EXCEPT !.sent = @ \o
            [i \in 1..Len(HOMEBASE_SUBSCRIPTIONS) |->
                [cmd |-> "touch", name |-> HOMEBASE_SUBSCRIPTIONS[i]]]]
    ELSE W

----------------------------------------------------------------------------
(* Request queue and in-flight cap *)

Job(caller, script, timeoutMs) ==
    [caller |-> caller, script |-> script, timeoutMs |-> timeoutMs]

Settle(W, job, kind, value) ==
    [W EXCEPT !.settled = Append(@,
        [caller |-> job.caller, script |-> job.script, kind |-> kind,
         value |-> value])]

TimeoutMessage(script) ==
    CASE script = "ess::start" -> "Request timed out: ess::start"
      [] OTHER -> "Request timed out: <script>"

\* HomebaseWS.genRequestId
genRequestId(W) ==
    Min(RequestIds \ (DOMAIN W.L.requestMap \cup W.retired))

MapRemove(m, k) == [x \in DOMAIN m \ {k} |-> m[x]]

\* The three statements that put a request in flight (eval's attemptImmediate,
\* and the body of tryDrainQueue's loop): arm its deadline, enter it in the
\* pending table, count it, send the eval frame.
SendRequest(W, job) ==
    LET requestId == genRequestId(W)
    IN [W EXCEPT !.L.requestMap = MapSet(@, requestId, job),
                 !.L.currentInFlight = @ + 1,
                 !.sent = Append(@, [cmd |-> "eval", script |-> job.script,
                                     requestId |-> requestId])]

RECURSIVE tryDrainLoop(_)
tryDrainLoop(W) ==
    IF W.L.currentInFlight < maxInFlight /\ Len(W.L.evalQueue) > 0
    THEN tryDrainLoop(SendRequest([W EXCEPT !.L.evalQueue = Tail(@)],
                                  Head(W.L.evalQueue)))
    ELSE W

\* HomebaseWS.tryDrainQueue
tryDrainQueue(W) ==
    IF ~IsOpen(W.L) THEN W ELSE tryDrainLoop(W)

\* eval with the capacity test off by one: sends while the table is full
evalOffByOne(W, job) ==
    IF IsOpen(W.L) /\ W.L.currentInFlight <= maxInFlight
    THEN SendRequest(W, job)
    ELSE IF Len(W.L.evalQueue) >= maxQueueSize
         THEN Settle(W, job, "reject", "Request queue full")
         ELSE tryDrainQueue([W EXCEPT !.L.evalQueue = Append(@, job)])

\* eval that refuses a request when the queue holds one less than its cap
evalRejectsEarly(W, job) ==
    IF IsOpen(W.L) /\ W.L.currentInFlight < maxInFlight
    THEN SendRequest(W, job)
    ELSE IF Len(W.L.evalQueue) >= maxQueueSize - 1
         THEN Settle(W, job, "reject", "Request queue full")
         ELSE tryDrainQueue([W EXCEPT !.L.evalQueue = Append(@, job)])

\* HomebaseWS.eval(script, timeoutMs)
eval(W, job) ==
    IF IsOpen(W.L) /\ W.L.currentInFlight < maxInFlight
    THEN SendRequest(W, job)
    ELSE IF Len(W.L.evalQueue) >= maxQueueSize
         THEN Settle(W, job, "reject", "Request queue full")
         ELSE tryDrainQueue([W EXCEPT !.L.evalQueue = Append(@, job)])

\* The deadline callback without tryDrainQueue and without the decrement of
\* currentInFlight
onRequestTimeoutSlotKept(W, requestId) ==
    IF requestId \in DOMAIN W.L.requestMap
    THEN LET job == W.L.requestMap[requestId]
             W1 == [W EXCEPT !.L.requestMap = MapRemove(@, requestId),
                             !.retired = @ \cup {requestId}]
         IN Settle(W1, job, "reject", TimeoutMessage(job.script))
    ELSE W

\* The deadline callback without the test that the request is still pending:
\* a deadline that finds no entry gives the slot back all the same
onRequestTimeoutUnguarded(W, requestId) ==
    IF requestId \in DOMAIN W.L.requestMap
    THEN LET job == W.L.requestMap[requestId]
             W1 == [W EXCEPT !.L.requestMap = MapRemove(@, requestId),
                             !.L.currentInFlight =
                                 IF @ - 1 > 0 THEN @ - 1 ELSE 0,
                             !.retired = @ \cup {requestId}]
         IN tryDrainQueue(Settle(W1, job, "reject", TimeoutMessage(job.script)))
    ELSE tryDrainQueue([W EXCEPT !.L.currentInFlight =
                                     IF @ - 1 > 0 THEN @ - 1 ELSE 0])

\* The deadline callback armed when a request is sent
onRequestTimeout(W, requestId) ==
    IF requestId \in DOMAIN W.L.requestMap
    THEN LET job == W.L.requestMap[requestId]
             W1 == [W EXCEPT !.L.requestMap = MapRemove(@, requestId),
                             !.L.currentInFlight =
                                 IF @ - 1 > 0 THEN @ - 1 ELSE 0,
                             !.retired = @ \cup {requestId}]
         IN tryDrainQueue(Settle(W1, job, "reject", TimeoutMessage(job.script)))
    ELSE W

\* handleMessage that completes the oldest pending request, whatever
\* requestId the response carries
handleMessageOldestFirst(W, msg) ==
    IF msg.requestId # NoRequestId /\ DOMAIN W.L.requestMap # {}
    THEN LET oldest == Min(DOMAIN W.L.requestMap)
             pending == W.L.requestMap[oldest]
             W1 == tryDrainQueue(
                     [W EXCEPT !.L.requestMap = MapRemove(@, oldest),
                               !.L.currentInFlight =
                                   IF @ - 1 > 0 THEN @ - 1 ELSE 0,
                               !.retired = @ \cup {oldest}])
         IN IF msg.status = "ok"
            THEN Settle(W1, pending, "resolve", msg.result)
            ELSE Settle(W1, pending, "reject",
                        IF msg.error \in {Undefined, ""}
                        THEN "Command failed" ELSE msg.error)
    ELSE W

\* HomebaseWS.handleMessage(msg)
handleMessage(W, msg) ==
    IF msg.requestId # NoRequestId /\ msg.requestId \in DOMAIN W.L.requestMap
    THEN LET pending == W.L.requestMap[msg.requestId]
             W1 == tryDrainQueue(
                     [W EXCEPT !.L.requestMap = MapRemove(@, msg.requestId),
                               !.L.currentInFlight =
                                   IF @ - 1 > 0 THEN @ - 1 ELSE 0,
                               !.retired = @ \cup {msg.requestId}])
         IN IF msg.status = "ok"
            THEN Settle(W1, pending, "resolve", msg.result)
            ELSE LET W2 == Settle(W1, pending, "reject",
                                  IF msg.error \in {Undefined, ""}
                                  THEN "Command failed" ELSE msg.error)
                 IN IF msg.error # Undefined
                    THEN safeBroadcast(W2, "TCL_ERROR", msg.error)
                    ELSE W2
    ELSE IF msg.type = "datapoint"
    THEN processDatapointForLogging(W, msg.name, msg.data)
    ELSE W

----------------------------------------------------------------------------
(* Connection life cycle *)

\* if (this.t) { clearTimeout(this.t); this.t = null; }
clearTimer(L, t) ==
    IF L[t] THEN [L EXCEPT ![t] = FALSE, !.live[t] = @ - 1] ELSE L

\* this.t = setTimeout(...) or setInterval(...): one more instance, whatever
\* the field held
setTimer(L, t) ==
    [L EXCEPT ![t] = TRUE,
              !.live[t] = IF @ < MaxTimerInstances THEN @ + 1 ELSE @]

\* stopHeartbeat that leaves the juicer poll running
stopHeartbeatKeepsPoll(L) ==
    clearTimer(clearTimer(clearTimer(clearTimer(L,
        "heartbeatTimer"), "heartbeatTimeoutHandle"), "staleCheckTimer"),
        "refreshTimer")

\* HomebaseWS.stopHeartbeat
stopHeartbeat(L) ==
    clearTimer(clearTimer(clearTimer(clearTimer(clearTimer(L,
        "heartbeatTimer"), "heartbeatTimeoutHandle"), "staleCheckTimer"),
        "refreshTimer"), "pollJuicerTimer")

\* HomebaseWS.startHeartbeat
startHeartbeat(L) ==
    setTimer(setTimer(setTimer(setTimer(stopHeartbeat(L),
        "heartbeatTimer"), "staleCheckTimer"), "refreshTimer"),
        "pollJuicerTimer")

\* scheduleReconnect that computes the delay and arms no timer
scheduleNothing(W, random) == W

\* Math.pow(2, n)
RECURSIVE Pow2(_)
Pow2(n) == IF n <= 0 THEN 1 ELSE 2 * Pow2(n - 1)

\* Math.floor(Math.random() * ms), random in thousandths
RandomBelow(random, ms) == (random * ms) \div 1000

Arm(W, timer, ms) == [W EXCEPT !.armed = Append(@, [timer |-> timer, ms |-> ms])]

\* scheduleReconnect whose backoff exponent is the count of all failures in a
\* row, not of those since the slow phase began
scheduleCountsAllFailures(W, random) ==
    LET L == W.L
        counted == L.consecutiveFailures + 1
        failures == IF counted > MaxFailures THEN MaxFailures ELSE counted
        first == IF L.firstDisconnectAtMs = NoTime THEN now
                 ELSE L.firstDisconnectAtMs
        fast == now - first < fastRetryWindowMs
        raw == slowBaseBackoffMs * Pow2(failures)
        backoff == IF slowMaxBackoffMs < raw THEN slowMaxBackoffMs ELSE raw
        delay == IF fast
                 THEN fastRetryBaseMs + RandomBelow(random, fastRetryJitterMs)
                 ELSE backoff + RandomBelow(random, slowJitterMs)
    IN Arm([W EXCEPT !.L.consecutiveFailures = failures,
                     !.L.firstDisconnectAtMs = first,
                     !.L.slowScheduled =
                         IF fast THEN @
                         ELSE IF @ < MaxFailures THEN @ + 1 ELSE @,
                     !.L.reconnectTimer = TRUE],
           "reconnectTimer", delay)

\* HomebaseWS.scheduleReconnect. The timer it arms fires at any later step;
\* the delay it computed is recorded with the timer. The field slowScheduled
\* is not in the code: it counts the slow-phase schedulings since the last
\* open, up to MaxFailures.
scheduleReconnect(W, random) ==
    LET L == W.L
        counted == L.consecutiveFailures + 1
        failures == IF counted > MaxFailures THEN MaxFailures ELSE counted
        start0 == IF counted > MaxFailures /\ L.slowPhaseStartFailures > 0
                  THEN L.slowPhaseStartFailures - 1
                  ELSE L.slowPhaseStartFailures
        first == IF L.firstDisconnectAtMs = NoTime THEN now
                 ELSE L.firstDisconnectAtMs
        elapsed == now - first
        fast == elapsed < fastRetryWindowMs
        start == IF ~fast /\ start0 = NoCount THEN failures ELSE start0
        slowFailures == IF failures - start > 0 THEN failures - start ELSE 0
        raw == slowBaseBackoffMs * Pow2(slowFailures)
        backoff == IF slowMaxBackoffMs < raw THEN slowMaxBackoffMs ELSE raw
        delay == IF fast
                 THEN fastRetryBaseMs + RandomBelow(random, fastRetryJitterMs)
                 ELSE backoff + RandomBelow(random, slowJitterMs)
    IN Arm([W EXCEPT !.L.consecutiveFailures = failures,
                     !.L.firstDisconnectAtMs = first,
                     !.L.slowPhaseStartFailures = start,
                     !.L.slowScheduled =
                         IF fast THEN @
                         ELSE IF @ < MaxFailures THEN @ + 1 ELSE @,
                     !.L.reconnectPending =
                         LET cleared == IF L.reconnectTimer /\ @ > 0
                                        THEN @ - 1 ELSE @
                         IN IF cleared < MaxTimerInstances
                            THEN cleared + 1 ELSE cleared,
                     !.L.reconnectTimer = TRUE],
           "reconnectTimer", delay)

FreeSocks(L) == {s \in SockIds : L.socks[s] = "NONE"}

\* connect without its two early returns: it dials whatever the link's state
connectUnguarded(L) ==
    LET s == Min({x \in 1..MaxSock : L.socks[x] = "NONE"})
    IN [L EXCEPT !.connecting = TRUE, !.ws = s,
                 !.socks[s] = "CONNECTING",
                 !.connectTimeoutHandle = TRUE]

\* HomebaseWS.connect, up to the registration of the handlers
connect(L) ==
    IF L.connecting THEN L
    ELSE IF L.ws # NoSocket /\ L.socks[L.ws] \in {"OPEN", "CONNECTING"} THEN L
    ELSE LET s == Min(FreeSocks(L))
         IN [L EXCEPT !.connecting = TRUE, !.ws = s,
                      !.socks[s] = "CONNECTING",
                      !.connectTimeoutHandle = TRUE]

\* The callback of the reconnect timer that leaves the handle in the field
onReconnectTimerKeepsHandle(L) ==
    connect([L EXCEPT !.reconnectPending = IF @ > 0 THEN @ - 1 ELSE 0])

\* The callback of the reconnect timer: reconnectTimer = null, then connect()
onReconnectTimer(L) ==
    connect([L EXCEPT !.reconnectTimer = FALSE,
                      !.reconnectPending = IF @ > 0 THEN @ - 1 ELSE 0])

\* The model can run connect when connect returns early or a WebSocket object
\* is left to create.
CanConnect(L) == connect(L) = L \/ FreeSocks(L) # {}

\* ws.on('open')
onOpen(W) ==
    LET L1 == startHeartbeat([W.L EXCEPT !.connecting = FALSE,
                                         !.connectTimeoutHandle = FALSE,
                                         !.lastMessageAt = now,
                                         !.firstDisconnectAtMs = NoTime,
                                         !.slowPhaseStartFailures = NoCount,
                                         !.consecutiveFailures = 0,
                                         !.slowScheduled = 0])
        W1 == simulateConnectivityUpsert([W EXCEPT !.L = L1], 1)
    IN touchAll(subscribeAll(W1))

\* ws.on('close'): stopHeartbeat, the connectivity upsert, the fields reset,
\* scheduleReconnect. The world after each statement is bound as a value.
onClose(W, random) ==
    CHOOSE closed \in
        { scheduleReconnect([W2 EXCEPT !.L.connecting = FALSE,
                                       !.L.connectTimeoutHandle = FALSE,
                                       !.L.ws = NoSocket],
                            random) :
            W2 \in { simulateConnectivityUpsert(W1, 0) :
                        W1 \in { [W EXCEPT !.L = stopHeartbeat(@)] } } } : TRUE

\* ws.on('pong')
onPong(W) ==
    [W EXCEPT !.L = clearTimer([@ EXCEPT !.lastMessageAt = now],
                               "heartbeatTimeoutHandle")]

\* The callback of heartbeatTimer: ping, and arm the pong timeout
onHeartbeat(W) ==
    IF ~IsOpen(W.L) THEN W
    ELSE Arm([W EXCEPT !.L = setTimer(clearTimer(@, "heartbeatTimeoutHandle"),
                                      "heartbeatTimeoutHandle")],
             "heartbeatTimeoutHandle", heartbeatTimeoutMs)

\* The stale watchdog that never finds the link stale
staleCheckNever(L, silentFor) == L

\* The callback of staleCheckTimer; silentFor is Date.now() - lastMessageAt
staleCheck(L, silentFor) ==
    IF IsOpen(L) /\ silentFor > staleMs THEN terminate(L) ELSE L

\* ws.on('message'), for a frame that parses and is not chunked
onMessage(W, msg) ==
    handleMessage([W EXCEPT !.L = clearTimer([@ EXCEPT !.lastMessageAt = now],
                                             "heartbeatTimeoutHandle"),
                            !.dispatched = Append(@, msg)], msg)

\* Number(v || 0) for a field of a parsed frame
NumberOr0(v) ==
    IF v.t = "num" THEN [nan |-> FALSE, n |-> v.n]
    ELSE IF v.t = "undef" THEN [nan |-> FALSE, n |-> 0]
    ELSE Number(v.s)

\* new Array(totalChunks).fill(''): the elements of a JS array, by index
NewChunks(totalChunks) == [i \in 0..(totalChunks - 1) |-> <<>>]

\* entry.chunks[chunkIndex] = chunkData: a non-negative integer index writes
\* the element (growing the array past its length if need be, the indices in
\* between staying holes); any other index sets a property that filter and
\* join do not see
SetChunk(chunks, chunkIndex, chunkData) ==
    IF ~chunkIndex.nan /\ chunkIndex.n >= 0
    THEN MapSet(chunks, chunkIndex.n, chunkData)
    ELSE chunks

\* entry.chunks.filter((c) => c !== '').length: filter skips the holes
ReceivedCount(chunks) ==
    Cardinality({i \in DOMAIN chunks : chunks[i] # <<>>})

RECURSIVE JoinFrom(_, _)
JoinFrom(chunks, i) ==
    IF \A j \in DOMAIN chunks : j < i THEN <<>>
    ELSE (IF i \in DOMAIN chunks THEN chunks[i] ELSE <<>>)
         \o JoinFrom(chunks, i + 1)

\* entry.chunks.join(''): a hole joins as the empty string
Join(chunks) == JoinFrom(chunks, 0)

\* The pieces of the frame texts that arrive in chunks
TextHead == "{\"type\":\"datapoint\",\"name\":\"ess/subject\","
TextSally == "\"data\":\"sally\"}"
TextBob == "\"data\":\"bob\"}"
Blank == " "

\* JSON.parse(joined): white space between tokens is skipped; a text that is
\* not a whole JSON value throws
JSONparse(text) ==
    LET tokens == SelectSeq(text, LAMBDA piece : piece # Blank)
        datapoint(data) ==
            [requestId |-> NoRequestId, status |-> Undefined,
             result |-> Undefined, error |-> Undefined, type |-> "datapoint",
             name |-> <<"ess", "/", "subject">>, data |-> data]
    IN CASE tokens = <<TextHead, TextSally>>
              -> [ok |-> TRUE, value |-> datapoint("sally")]
         [] tokens = <<TextHead, TextBob>>
              -> [ok |-> TRUE, value |-> datapoint("bob")]
         [] OTHER -> [ok |-> FALSE, value |-> datapoint("")]

\* ws.on('message'), for a frame that parses and has isChunkedMessage set.
\* The field seen of a buffer is not in the code: it records the integer
\* chunk indices received for the buffer's message.
onChunk(W, msg) ==
    LET W0 == [W EXCEPT !.L = clearTimer([@ EXCEPT !.lastMessageAt = now],
                                         "heartbeatTimeoutHandle")]
        messageId == msg.messageId
        chunkIndex == NumberOr0(msg.chunkIndex)
        totalChunks == NumberOr0(msg.totalChunks)
        chunkData == msg.data
    IN IF totalChunks.nan \/ totalChunks.n <= 0 \/ totalChunks.n > maxChunkTotal
       THEN W0
       ELSE LET bufs == W0.L.chunkBuffers
                entry0 == IF messageId \in DOMAIN bufs THEN bufs[messageId]
                          ELSE [chunks |-> NewChunks(totalChunks.n),
                                total |-> totalChunks.n, seen |-> {}]
                entry == [entry0 EXCEPT
                            !.chunks = SetChunk(@, chunkIndex, chunkData),
                            !.seen = IF chunkIndex.nan THEN @
                                     ELSE @ \cup {chunkIndex.n}]
            IN IF ReceivedCount(entry.chunks) = entry.total
               THEN LET joined == Join(entry.chunks)
                        W1 == [W0 EXCEPT !.L.chunkBuffers =
                                             MapRemove(bufs, messageId)]
                        reconstructed == JSONparse(joined)
                    IN IF reconstructed.ok
                       THEN handleMessage(
                                [W1 EXCEPT !.dispatched =
                                               Append(@, reconstructed.value)],
                                reconstructed.value)
                       ELSE W1
               ELSE [W0 EXCEPT !.L.chunkBuffers = MapSet(bufs, messageId, entry)]

----------------------------------------------------------------------------
(* Actions: one per callback *)

Op(name, h) == [name |-> name, host |-> h]

\* new HomebaseWS(ip); homebaseConnections.set(ip, hb); hb.connect()
construct(L) ==
    connect([L EXCEPT !.constructed = IF @ < MaxLinks THEN @ + 1 ELSE @])

\* getHomebaseWS(ip): HOMEBASE_ALLOWED_IPS is empty, so every ip is allowed
getHomebaseWS(ip) ==
    /\ ip \notin homebaseConnections
    /\ CanConnect(link[ip])
    /\ homebaseConnections' = homebaseConnections \cup {ip}
    /\ Commit([World(ip) EXCEPT !.L = construct(@)], Op("getHomebaseWS", ip))

\* The shipped allow-list
HOMEBASE_ALLOWED_IPS == {}

\* getHomebaseWS that makes a new HomebaseWS whether or not the map has one
ensureAlwaysNew(allowed, ip, L) ==
    [returns |-> "link", created |-> TRUE, L |-> construct(L)]

\* The body of getHomebaseWS(ip) under the allow-list allowed, L being the
\* link the map holds for ip or, when it holds none, a link yet to be made
ensure(allowed, ip, L) ==
    IF allowed # {} /\ ip \notin allowed
    THEN [returns |-> "null", created |-> FALSE, L |-> L]
    ELSE IF ip \notin homebaseConnections
    THEN [returns |-> "link", created |-> TRUE, L |-> construct(L)]
    ELSE [returns |-> "link", created |-> FALSE, L |-> L]

\* A call of getHomebaseWS(ip), whatever the map holds
getHomebaseWSCall(allowed, ip) ==
    LET r == ensure(allowed, ip, link[ip])
    IN /\ homebaseConnections' =
              IF r.created THEN homebaseConnections \cup {ip}
              ELSE homebaseConnections
       /\ Commit([World(ip) EXCEPT !.L = r.L],
                 [name |-> "ensure", host |-> ip, allowed |-> allowed,
                  returns |-> r.returns])

\* connect() is called on a link whose dial is in progress or whose socket is
\* OPEN, the case its two early returns are written for. (The program's own
\* callers, getHomebaseWS on a new link and the reconnect timer, find the
\* link without a socket.)
ConnectCall(h) ==
    /\ h \in homebaseConnections
    /\ link[h].connecting \/ IsOpen(link[h]) \/ IsConnecting(link[h])
    /\ CanConnect(link[h])
    /\ Commit([World(h) EXCEPT !.L = connect(@)], Op("connect", h))
    /\ UNCHANGED homebaseConnections

\* The reconnect timer fires: reconnectTimer = null, then connect()
ReconnectTimerFire(h) ==
    /\ link[h].reconnectTimer
    /\ CanConnect(link[h])
    /\ Commit([World(h) EXCEPT !.L = onReconnectTimer(@)],
              Op("reconnectTimer", h))
    /\ UNCHANGED homebaseConnections

\* The connect-attempt timer fires after connectTimeoutMs
ConnectTimeoutFire(h) ==
    /\ link[h].connectTimeoutHandle
    /\ Commit([World(h) EXCEPT !.L =
                  IF IsConnecting(@)
                  THEN [terminate(@) EXCEPT !.connectTimeoutHandle = FALSE]
                  ELSE [@ EXCEPT !.connectTimeoutHandle = FALSE]],
              Op("connectTimeout", h))
    /\ UNCHANGED homebaseConnections

\* The dial of socket s succeeds: its 'open' event
SockOpen(h, s) ==
    /\ link[h].socks[s] = "CONNECTING"
    /\ Commit(onOpen([World(h) EXCEPT !.L.socks[s] = "OPEN"]),
              [name |-> "open", host |-> h, sock |-> s,
               again |-> DOMAIN link[h].lastValues # {}])
    /\ UNCHANGED homebaseConnections

\* Socket s is gone (failed dial, remote close, or after terminate): its
\* 'close' event
SockClose(h, s) ==
    /\ link[h].socks[s] # "NONE"
    /\ \E random \in Randoms :
          Commit(onClose([World(h) EXCEPT !.L.socks[s] = "NONE"], random),
                 [name |-> "close", host |-> h, sock |-> s,
                  was |-> link[h].socks[s]])
    /\ UNCHANGED homebaseConnections

\* A frame arrives on socket s
SockMessage(h, s, msg) ==
    /\ link[h].socks[s] = "OPEN"
    /\ Commit(onMessage(World(h), msg),
              [name |-> "message", host |-> h, sock |-> s, msg |-> msg,
               known |-> msg.requestId \in DOMAIN link[h].requestMap])
    /\ UNCHANGED homebaseConnections

\* ws.on('message') for a frame given as its text: a text that does not parse
\* is logged in the catch block and dropped
onMessageText(W, text) ==
    LET parsed == JSONparse(text)
    IN IF parsed.ok THEN onMessage(W, parsed.value)
       ELSE [W EXCEPT !.L = clearTimer([@ EXCEPT !.lastMessageAt = now],
                                       "heartbeatTimeoutHandle")]

\* A frame with the given text arrives on socket s
SockText(h, s, text) ==
    /\ link[h].socks[s] = "OPEN"
    /\ Commit(onMessageText(World(h), text),
              [name |-> "text", host |-> h, sock |-> s, text |-> text])
    /\ UNCHANGED homebaseConnections

\* A chunk frame arrives on socket s
SockChunk(h, s, msg) ==
    /\ link[h].socks[s] = "OPEN"
    /\ Commit(onChunk(World(h), msg),
              [name |-> "chunk", host |-> h, sock |-> s, msg |-> msg,
               buffered |-> link[h].chunkBuffers])
    /\ UNCHANGED homebaseConnections

\* A pong arrives on socket s
SockPong(h, s) ==
    /\ link[h].socks[s] = "OPEN"
    /\ Commit(onPong(World(h)), Op("pong", h))
    /\ UNCHANGED homebaseConnections

\* heartbeatTimer ticks every heartbeatIntervalMs: ping and arm the pong timeout
HeartbeatTick(h) ==
    /\ link[h].heartbeatTimer
    /\ Commit(onHeartbeat(World(h)), Op("heartbeat", h))
    /\ UNCHANGED homebaseConnections

\* The pong timeout fires after heartbeatTimeoutMs
HeartbeatTimeoutFire(h) ==
    /\ link[h].heartbeatTimeoutHandle
    /\ Commit([World(h) EXCEPT !.L =
                  clearTimer(terminate(@), "heartbeatTimeoutHandle")],
              Op("pongTimeout", h))
    /\ UNCHANGED homebaseConnections

\* staleCheckTimer ticks; silentFor is Date.now() - lastMessageAt
StaleCheckTick(h, silentFor) ==
    /\ link[h].staleCheckTimer
    /\ Commit([World(h) EXCEPT !.L = staleCheck(@, silentFor)],
              [name |-> "staleCheck", host |-> h, silentFor |-> silentFor])
    /\ UNCHANGED homebaseConnections

\* A caller invokes eval(script, timeoutMs) on the link of host h
Eval(h, job) ==
    /\ h \in homebaseConnections
    /\ Commit(eval(World(h), job),
              [name |-> "eval", host |-> h, job |-> job,
               wasOpen |-> IsOpen(link[h]),
               inFlight |-> link[h].currentInFlight,
               queued |-> Len(link[h].evalQueue)])
    /\ UNCHANGED homebaseConnections

\* The deadline of pending request requestId expires
RequestTimeoutFire(h, requestId) ==
    /\ requestId \in DOMAIN link[h].requestMap
    /\ Commit(onRequestTimeout(World(h), requestId),
              [name |-> "requestTimeout", host |-> h, requestId |-> requestId,
               job |-> link[h].requestMap[requestId],
               wasOpen |-> IsOpen(link[h]),
               inFlight |-> link[h].currentInFlight,
               queued |-> Len(link[h].evalQueue)])
    /\ UNCHANGED homebaseConnections

\* ms milliseconds pass between two callbacks
TimePasses(ms) ==
    /\ now' = now + ms
    /\ out' = [NoOutput EXCEPT !.op = [name |-> "timePasses", ms |-> ms]]
    /\ UNCHANGED <<homebaseConnections, link, statusData, commStatus,
                   perfStatsData, wss, clients, sendThrows, running,
                   dbCommStatus, pingResults,
                   commStatusRow, probeLog,
                   notificationClients, retryTimers, store, losses, finished,
                   hist>>

----------------------------------------------------------------------------
(* Browser sessions *)

BrowserStep(op, frames) ==
    /\ out' = [NoOutput EXCEPT !.op = op, !.frames = frames]
    /\ UNCHANGED <<homebaseConnections, link, statusData, commStatus,
                   perfStatsData, running, dbCommStatus, pingResults,
                   commStatusRow, probeLog,
                   notificationClients, retryTimers, store, losses, finished,
                   hist, now>>

\* startWebSocketServer, with the store's tables empty
startWebSocketServer ==
    /\ ~wss
    /\ homebaseConnections = {}
    /\ wss' = TRUE
    /\ UNCHANGED <<clients, sendThrows>>
    /\ BrowserStep([name |-> "startWebSocketServer"], <<>>)

\* wss.on('connection'): the three snapshot frames
BrowserConnect(c) ==
    /\ wss
    /\ clients[c] = "NONE"
    /\ clients' = [clients EXCEPT ![c] = "OPEN"]
    /\ UNCHANGED <<wss, sendThrows>>
    /\ BrowserStep([name |-> "browserConnect", client |-> c],
                   << [to |-> c, type |-> "status", data |-> statusData],
                      [to |-> c, type |-> "commStatus", data |-> commStatus],
                      [to |-> c, type |-> "perfStats", data |-> perfStatsData] >>)

\* A browser socket starts closing: it stays in wss.clients, no longer OPEN
BrowserClosing(c) ==
    /\ clients[c] = "OPEN"
    /\ clients' = [clients EXCEPT ![c] = "CLOSING"]
    /\ UNCHANGED <<wss, sendThrows>>
    /\ BrowserStep([name |-> "browserClosing", client |-> c], <<>>)

\* ws.on('close') of a browser socket: it leaves wss.clients
BrowserClose(c) ==
    /\ clients[c] # "NONE"
    /\ clients' = [clients EXCEPT ![c] = "NONE"]
    /\ sendThrows' = sendThrows \ {c}
    /\ UNCHANGED wss
    /\ BrowserStep([name |-> "browserClose", client |-> c], <<>>)

\* The connection of an open browser socket breaks in a way that makes its
\* send() throw from now on
BrowserSendBreaks(c) ==
    /\ clients[c] = "OPEN"
    /\ c \notin sendThrows
    /\ sendThrows' = sendThrows \cup {c}
    /\ UNCHANGED <<wss, clients>>
    /\ BrowserStep([name |-> "browserSendBreaks", client |-> c], <<>>)

\* The text of a browser frame is a sequence of pieces: braces and members
MemberAddDevice == "\"msg_type\":\"AddDevice\","
MemberHello == "\"msg_type\":\"hello\","
MemberIp == "\"ip\":\"10.0.0.2\","
MemberMsg == "\"msg\":\"rig2\""

\* The key and the value a member piece stands for
Member(piece) ==
    CASE piece = MemberAddDevice -> [k |-> "msg_type", v |-> "AddDevice"]
      [] piece = MemberHello -> [k |-> "msg_type", v |-> "hello"]
      [] piece = MemberIp -> [k |-> "ip", v |-> "10.0.0.2"]
      [] piece = MemberMsg -> [k |-> "msg", v |-> "rig2"]
      [] OTHER -> [k |-> "", v |-> ""]

\* JSON.parse(message): the members of an object that is closed, or null;
\* anything else throws
JSONparseMessage(text) ==
    IF text = << "null" >> THEN [ok |-> TRUE, members |-> <<>>]
    ELSE IF /\ Len(text) >= 2
            /\ text[1] = "{"
            /\ text[Len(text)] = "}"
            /\ \A i \in 2..(Len(text) - 1) : Member(text[i]).k # ""
         THEN [ok |-> TRUE,
               members |-> [i \in 1..(Len(text) - 2) |-> Member(text[i + 1])]]
         ELSE [ok |-> FALSE, members |-> <<>>]

\* msg?.key
Get(members, key) ==
    LET at == {i \in 1..Len(members) : members[i].k = key}
    IN IF at = {} THEN Undefined ELSE members[Max(at)].v

\* ws.on('message') of a browser socket. JSON.parse runs outside any try
\* block: a text that does not parse throws out of the listener, and the
\* process, which installs no handler for uncaught exceptions, ends. The
\* intent AddDevice runs addDevice(msg.ip, msg.msg), which inserts a row into
\* comm_status and does nothing else; stored tells whether the insert went
\* through. The intents of the texts drawn here touch nothing else.
BrowserMessage(c, text, stored) ==
    /\ wss
    /\ clients[c] = "OPEN"
    /\ LET parsed == JSONparseMessage(text)
           msg_type == Get(parsed.members, "msg_type")
       IN /\ running' = parsed.ok
          /\ dbCommStatus' =
                 IF parsed.ok /\ msg_type = "AddDevice" /\ stored
                 THEN dbCommStatus \cup {Get(parsed.members, "ip")}
                 ELSE dbCommStatus
          /\ out' = [NoOutput EXCEPT
                        !.op = [name |-> "browserMessage", client |-> c,
                                text |-> text, msg_type |-> msg_type]]
    /\ UNCHANGED <<homebaseConnections, link, statusData, commStatus,
                   perfStatsData, wss, clients, sendThrows, pingResults,
                   commStatusRow, probeLog,
                   notificationClients, retryTimers, store, losses, finished,
                   hist, now>>

----------------------------------------------------------------------------
(* Store notifications *)

\* The payload text of a notification, and what JSON.parse makes of it
PayloadSubject ==
    "{\"host\":\"10.0.0.1\",\"status_source\":\"ess\",\"status_type\":\"subject\",\"status_value\":\"sally\""

JSONparsePayload(text) ==
    IF text = << PayloadSubject, "}" >>
    THEN [ok |-> TRUE,
          value |-> [host |-> "10.0.0.1", status_source |-> <<"ess">>,
                     status_type |-> <<"subject">>, status_value |-> "sally"]]
    ELSE [ok |-> FALSE,
          value |-> [host |-> "", status_source |-> <<>>,
                     status_type |-> <<>>, status_value |-> ""]]

\* dataStore.findIndex(findIndexCallback); 0 stands for -1
\* A findIndexCallback compares fields of the entry with the payload's; it
\* is given as the set of their names
Matches(entry, payload, findIndexCallback) ==
    \A f \in findIndexCallback : entry[f] = payload[f]

findIndex(dataStore, payload, findIndexCallback) ==
    LET hits == {i \in 1..Len(dataStore) :
                    Matches(dataStore[i], payload, findIndexCallback)}
    IN IF hits = {} THEN 0 ELSE Min(hits)

\* isRecentStatsChanges(payload)
isRecentStatsChanges(payload) == "trials" \in DOMAIN payload

\* dataStore.splice(index, 1)
Splice(dataStore, index) ==
    SubSeq(dataStore, 1, index - 1) \o SubSeq(dataStore, index + 1, Len(dataStore))

\* handleNotification, from its second statement on: what it leaves in
\* dataStore
handleNotification(payload, dataStore, findIndexCallback, deleteOnZeroTrials) ==
    LET index == findIndex(dataStore, payload, findIndexCallback)
    IN IF deleteOnZeroTrials /\ isRecentStatsChanges(payload)
          /\ payload.trials = 0
       THEN IF index # 0 THEN Splice(dataStore, index) ELSE dataStore
       ELSE IF index # 0 THEN [dataStore EXCEPT ![index] = payload]
            ELSE Append(dataStore, payload)

\* handleNotification's first statement, broadcastToWebSocketClients(eventType,
\* payload), as the output of a callback that belongs to no link
NotificationOutput(op, eventType, payload) ==
    [NoOutput EXCEPT !.op = op,
                     !.events = << [type |-> eventType, data |-> payload] >>,
                     !.frames = IF wss THEN SendToOpenClients(1, eventType, payload)
                                ELSE <<>>]

\* notificationClient.on('notification') on channel status_changes:
\* handleStatusChanges(payload)
StatusChangesNotification(payload) ==
    /\ statusData' = handleNotification(payload, statusData,
                          {"host", "status_type"}, FALSE)
    /\ out' = NotificationOutput([name |-> "notification",
                                  channel |-> "status_changes",
                                  payload |-> payload],
                                 "status_changes", payload)
    /\ UNCHANGED <<homebaseConnections, link, commStatus, perfStatsData, wss,
                   clients, sendThrows, running, dbCommStatus, pingResults,
                   commStatusRow, probeLog,
                   notificationClients, retryTimers, store, losses, finished,
                   hist, now>>

\* notificationClient.on('notification') on channel new_image:
\* handleNewImage(parsedPayload), at the time its query of server_status
\* returns rows (no row, or the most recent one for the host and type). A
\* payload without host or status_type is logged and dropped.
NewImageNotification(parsedPayload, rows) ==
    /\ \A i \in 1..Len(rows) : /\ rows[i].host = parsedPayload.host
                                /\ rows[i].status_type = parsedPayload.status_type
    /\ LET valid == parsedPayload.host # "" /\ parsedPayload.status_type # <<>>
           op == [name |-> "notification", channel |-> "new_image",
                  payload |-> parsedPayload, rows |-> rows]
       IN IF valid /\ Len(rows) > 0
          THEN /\ statusData' = handleNotification(rows[1], statusData,
                                    {"host", "status_type"}, FALSE)
               /\ out' = NotificationOutput(op, "status_changes", rows[1])
          ELSE /\ statusData' = statusData
               /\ out' = [NoOutput EXCEPT !.op = op]
    /\ UNCHANGED <<homebaseConnections, link, commStatus, perfStatsData, wss,
                   clients, sendThrows, running, dbCommStatus, pingResults,
                   commStatusRow, probeLog,
                   notificationClients, retryTimers, store, losses, finished,
                   hist, now>>

\* The fields handleRecentStatsChanges compares
RecentStatsKey ==
    {"host", "status_type", "subject", "state_system", "protocol", "variant"}

\* notificationClient.on('notification') on channel perf_stats_changes:
\* handleRecentStatsChanges(payload), which passes false for
\* deleteOnZeroTrials
RecentStatsNotification(payload) ==
    /\ perfStatsData' = handleNotification(payload, perfStatsData,
                                           RecentStatsKey, FALSE)
    /\ out' = NotificationOutput([name |-> "notification",
                                  channel |-> "perf_stats_changes",
                                  payload |-> payload],
                                 "perf_stats_changes", payload)
    /\ UNCHANGED <<homebaseConnections, link, statusData, commStatus, wss,
                   clients, sendThrows, running, dbCommStatus, pingResults,
                   commStatusRow, probeLog,
                   notificationClients, retryTimers, store, losses, finished,
                   hist, now>>

\* notificationClient.on('notification') on channel status_changes, for a
\* notification given by its payload text: a payload that does not parse is
\* logged and dropped
StatusChangesText(text) ==
    LET parsed == JSONparsePayload(text)
    IN IF parsed.ok THEN StatusChangesNotification(parsed.value)
       ELSE /\ out' = [NoOutput EXCEPT
                          !.op = [name |-> "notification",
                                  channel |-> "status_changes",
                                  text |-> text]]
            /\ UNCHANGED <<homebaseConnections, link, statusData, commStatus,
                           perfStatsData, wss, clients, sendThrows, running,
                           dbCommStatus, pingResults,
                   commStatusRow, probeLog,
                   notificationClients, retryTimers, store, losses, finished,
                   hist, now>>

----------------------------------------------------------------------------
(* Frames a homebase sends *)

Frame(requestId, status, result, error, type, name, data) ==
    [requestId |-> requestId, status |-> status, result |-> result,
     error |-> error, type |-> type, name |-> name, data |-> data]

\* {requestId, status:"ok", result}, {requestId, status:"error", error?}
ResponseFrames(ids) ==
    {Frame(id, "ok", "3.3", Undefined, Undefined, <<>>, "") : id \in ids}
    \cup {Frame(id, "error", Undefined, e, Undefined, <<>>, "") :
            id \in ids, e \in {"bad script", "", Undefined}}

\* {status, action} control acks, which carry no requestId
ControlFrames ==
    {Frame(NoRequestId, "ok", Undefined, Undefined, Undefined, <<>>, "")}

\* {type:"datapoint", name, data}
DatapointFrames(names, values) ==
    {Frame(NoRequestId, Undefined, Undefined, Undefined, "datapoint", n, v) :
        n \in names, v \in values}

Undef == [t |-> "undef", n |-> 0, s |-> ""]

\* {isChunkedMessage: true, messageId, chunkIndex, totalChunks, data}
ChunkFrames(ids, indices, totals, datas) ==
    {[isChunkedMessage |-> TRUE, messageId |-> id, chunkIndex |-> i,
      totalChunks |-> n, data |-> d] :
        id \in ids, i \in indices, n \in totals, d \in datas}

----------------------------------------------------------------------------
(* Specification of the connection life cycle *)

Outstanding(h) == Cardinality(DOMAIN link[h].requestMap) + Len(link[h].evalQueue)

NextConn ==
    \E h \in Hosts :
        \/ getHomebaseWS(h)
        \/ ConnectCall(h)
        \/ ReconnectTimerFire(h)
        \/ ConnectTimeoutFire(h)
        \/ \E s \in SockIds : SockOpen(h, s)
        \/ \E s \in SockIds : SockClose(h, s)
        \/ \E s \in SockIds : SockPong(h, s)
        \/ HeartbeatTick(h)
        \/ HeartbeatTimeoutFire(h)
        \/ \E silentFor \in {staleMs, staleMs + 1} : StaleCheckTick(h, silentFor)

SpecConn == Init /\ [][NextConn]_vars

----------------------------------------------------------------------------
(* Specification of the request path of one link, with browser sessions *)

LinkHost == "10.0.0.1"

Jobs(callers) ==
    {Job(c, sc, DefaultTimeoutMs) : c \in callers, sc \in Scripts}

\* A request the callers make while fewer than MaxOutstanding are unsettled
BoundedEval(h) ==
    /\ Outstanding(h) < MaxOutstanding
    /\ \E job \in Jobs(Callers) : Eval(h, job)

\* A response-shaped or control frame, with any requestId
AnyFrame(h) ==
    \E s \in SockIds :
        \E msg \in ResponseFrames(1..(MaxOutstanding + 1)) \cup ControlFrames :
            SockMessage(h, s, msg)

\* Every callback of the connection life cycle of host h
LifeCycle(h) ==
    \/ getHomebaseWS(h)
    \/ ReconnectTimerFire(h)
    \/ ConnectTimeoutFire(h)
    \/ \E s \in SockIds : SockOpen(h, s)
    \/ \E s \in SockIds : SockClose(h, s)
    \/ \E s \in SockIds : SockPong(h, s)
    \/ HeartbeatTick(h)
    \/ HeartbeatTimeoutFire(h)
    \/ \E silentFor \in {staleMs, staleMs + 1} : StaleCheckTick(h, silentFor)

NextReq ==
    \/ LifeCycle(LinkHost)
    \/ BoundedEval(LinkHost)
    \/ AnyFrame(LinkHost)
    \/ \E id \in RequestIds : RequestTimeoutFire(LinkHost, id)

SpecReq == Init /\ [][NextReq]_vars

\* Node's timers: an armed timer that stays armed fires, an interval keeps
\* ticking, and a socket torn down by terminate() emits its close event.
\* Nothing obliges the network to open a socket, to close one, or to deliver
\* a frame.
LinkTimersFire(h) ==
    /\ WF_vars(\E s \in SockIds :
                  link[h].socks[s] = "CLOSING" /\ SockClose(h, s))
    /\ WF_vars(ReconnectTimerFire(h))
    /\ WF_vars(ConnectTimeoutFire(h))
    /\ WF_vars(HeartbeatTick(h))
    /\ WF_vars(HeartbeatTimeoutFire(h))
    /\ WF_vars(\E silentFor \in {staleMs, staleMs + 1} :
                  StaleCheckTick(h, silentFor))

\* The same, with the deadlines of the pending requests
TimersFire(h) ==
    /\ LinkTimersFire(h)
    /\ \A id \in RequestIds : WF_vars(RequestTimeoutFire(h, id))

SpecReqFair == SpecReq /\ TimersFire(LinkHost)

\* No request is made in SpecConn: the timers of the links are all there are
SpecConnFair == SpecConn /\ \A h \in Hosts : LinkTimersFire(h)

----------------------------------------------------------------------------
(* Specification of one link with browser sessions attached *)

MaxCommands == 1    \* requests the browsers keep unsettled at once

\* A request made while fewer than MaxCommands are unsettled
CommandEval(h) ==
    /\ Outstanding(h) < MaxCommands
    /\ \E job \in Jobs(Callers) : Eval(h, job)

CommandFrame(h) ==
    \E s \in SockIds :
        \E msg \in ResponseFrames(1..(MaxCommands + 1)) : SockMessage(h, s, msg)

NextBrowser ==
    \/ getHomebaseWS(LinkHost)
    \/ ReconnectTimerFire(LinkHost)
    \/ \E s \in SockIds : SockOpen(LinkHost, s)
    \/ \E s \in SockIds : SockClose(LinkHost, s)
    \/ CommandEval(LinkHost)
    \/ CommandFrame(LinkHost)
    \/ \E id \in RequestIds : RequestTimeoutFire(LinkHost, id)
    \/ startWebSocketServer
    \/ \E c \in ClientIds : BrowserConnect(c)
    \/ \E c \in ClientIds : BrowserClosing(c)
    \/ \E c \in ClientIds : BrowserClose(c)

SpecBrowser == Init /\ [][NextBrowser]_vars

----------------------------------------------------------------------------
(* Specification of one link under load: one caller issues requests without *)
(* limit, so that the queue and the pending table fill up. While at most    *)
(* MaxOutstanding requests are unsettled the pending ones complete in any   *)
(* order; beyond that the newest pending one completes first.               *)

Completable(h) ==
    LET ids == DOMAIN link[h].requestMap
    IN IF Outstanding(h) <= MaxOutstanding \/ ids = {} THEN ids ELSE {Max(ids)}

LoadEval(h) == \E job \in Jobs({"a"}) : Eval(h, job)

LoadResponse(h) ==
    \E s \in SockIds : \E id \in Completable(h) :
        SockMessage(h, s, Frame(id, "ok", "3.3", Undefined, Undefined, <<>>, ""))

LoadTimeout(h) == \E id \in Completable(h) : RequestTimeoutFire(h, id)

NextCap ==
    \/ getHomebaseWS(LinkHost)
    \/ ReconnectTimerFire(LinkHost)
    \/ \E s \in SockIds : SockOpen(LinkHost, s)
    \/ \E s \in SockIds : SockClose(LinkHost, s)
    \/ LoadEval(LinkHost)
    \/ LoadResponse(LinkHost)
    \/ LoadTimeout(LinkHost)

SpecCap == Init /\ [][NextCap]_vars

----------------------------------------------------------------------------
(* Specification of the status path: both links open, and MaxUpdates         *)
(* datapoint frames arrive on the link of LinkHost. Two of the names differ  *)
(* only in where "/" and "|" stand; two are aliases of (ess, in_obs).        *)

StatusNames ==
    { <<"ess", "/", "subject">>,
      <<"ess", "/", "obs_active">>, <<"ESS", "/", "IN_OBS">>,
      <<"a", "|", "b", "/", "c">>, <<"a", "/", "b", "|", "c">> }

StatusValues == {"1", "1.0", "abc"}

DatapointArrives(h) ==
    /\ Len(hist) < MaxUpdates
    /\ \E s \in SockIds : \E msg \in DatapointFrames(StatusNames, StatusValues) :
           SockMessage(h, s, msg)

NextStatus ==
    \/ \E h \in Hosts : getHomebaseWS(h)
    \/ \E h \in Hosts : \E s \in SockIds : SockOpen(h, s)
    \/ DatapointArrives(LinkHost)

SpecStatus == Init /\ [][NextStatus]_vars

----------------------------------------------------------------------------
(* Properties of the request queue and the in-flight cap *)

\* C1: for every link, in every reachable state, the pending-request table
\* holds at most 8 entries and the wait queue holds at most 200 entries.
C1_InFlightAndQueueCaps ==
    \A h \in Hosts :
        /\ Cardinality(DOMAIN link[h].requestMap) <= 8
        /\ Len(link[h].evalQueue) <= 200

\* Both caps are met at once, and the eval that just ran was refused with
\* "Request queue full".
C1_BothCapsReached ==
    /\ out.op.name = "eval"
    /\ Cardinality(DOMAIN link[LinkHost].requestMap) = 8
    /\ Len(link[LinkHost].evalQueue) = 200
    /\ Len(out.settled) = 1
    /\ out.settled[1].kind = "reject"
    /\ out.settled[1].value = "Request queue full"

\* C2: every request accepted into a link's wait queue is eventually sent to
\* the homebase or rejected by timeout, whether or not the socket ever opens
\* again; no accepted request stays unsettled forever. A request leaves the
\* queue only from its head and only to be sent, so a request stays forever
\* exactly when from some point on the queue is never empty and never
\* dequeued. The claim is stated for the executions it singles out, those in
\* which the socket is not Open from some point on (on an Open link the
\* juicer poll keeps issuing requests, and their completion drains the
\* queue): the queue is empty again and again, or dequeued again and again,
\* or the socket is Open again and again.
C2_QueuedEventuallyLeaves ==
    \/ []<>(Len(link[LinkHost].evalQueue) = 0)
    \/ []<><<Len(link'[LinkHost].evalQueue)
                < Len(link[LinkHost].evalQueue)>>_vars
    \/ []<>IsOpen(link[LinkHost])

\* C3: a request enqueued by eval while the socket is not Open is sent when the
\* link next becomes Open, as far as in-flight capacity is free, as part of
\* the open transition itself: the open callback takes off the queue as many
\* requests as there are free in-flight slots (all of them if they fit) and
\* sends each.
C3_OpenDrainsQueue ==
    [][out'.op.name = "open" =>
         LET queued == Len(link[LinkHost].evalQueue)
             free == maxInFlight - link[LinkHost].currentInFlight
             taken == IF queued < free THEN queued ELSE free
         IN /\ Len(link'[LinkHost].evalQueue) = queued - taken
            /\ Cardinality({i \in 1..Len(out'.sent) :
                               out'.sent[i].cmd = "eval"}) = taken]_vars

----------------------------------------------------------------------------
(* Properties of the status cache and snapshot *)

\* The (host, source, type) keys of the updates processed so far
UpdatedKeys == {hist[i].key : i \in 1..Len(hist)}

\* The updates to key K, in order of arrival
UpdatesTo(K) == SelectSeq(hist, LAMBDA u : u.key = K)

\* The string under which the cache files key K
CacheKey(K) == <<K[1], "|">> \o K[2] \o <<"|">> \o K[3]

ConnectedKey(h) == <<h, <<"ess">>, <<"connected">>>>

\* Keys whose stream of updates starts with nothing cached and does not share
\* its cache slot with another key's stream
OwnStream(K) ==
    /\ K # ConnectedKey(K[1])
    /\ \A K2 \in UpdatedKeys : CacheKey(K2) = CacheKey(K) => K2 = K

\* An update changes the key's value if it is the first or differs from the
\* update before it
IsChange(seq, i) == i = 1 \/ seq[i].value # seq[i - 1].value

\* A datapoint frame whose translated value is the one cached for its key
IsDuplicate(h, msg) ==
    LET t == Translate(msg.name, msg.data)
        newVal == IF t.value.t = "num" THEN String(t.value.n) ELSE t.value.s
        key == CacheKey(<<h, t.source, t.type>>)
    IN /\ key \in DOMAIN link[h].lastValues
       /\ link[h].lastValues[key] = newVal

\* C4: starting from an empty cache, for any sequence of updates to one
\* (host, source, type) key, a status_changes event is emitted for exactly the
\* updates whose normalized value differs from the key's previous value (the
\* first counting as a change), so that the number of events equals the
\* number of changes; and an update equal to the cached value emits nothing
\* and leaves cache and snapshot unchanged.
C4_OneEventPerChange ==
    /\ [](\A K \in UpdatedKeys :
            OwnStream(K) =>
                \A i \in 1..Len(UpdatesTo(K)) :
                    UpdatesTo(K)[i].emitted
                        = IF IsChange(UpdatesTo(K), i) THEN 1 ELSE 0)
    /\ [][(/\ out'.op.name = "message"
           /\ out'.op.msg.type = "datapoint"
           /\ IsDuplicate(out'.op.host, out'.op.msg))
          => /\ out'.events = <<>>
             /\ link' = link
             /\ statusData' = statusData]_vars

\* Three updates to one key: a first value, the same value again (nothing
\* emitted), then a different one (emitted).
C4_DuplicateThenChange ==
    \E K \in UpdatedKeys :
        /\ OwnStream(K)
        /\ Len(UpdatesTo(K)) = 3
        /\ UpdatesTo(K)[2].value = UpdatesTo(K)[1].value
        /\ UpdatesTo(K)[2].emitted = 0
        /\ UpdatesTo(K)[3].value # UpdatesTo(K)[2].value
        /\ UpdatesTo(K)[3].emitted = 1

\* The snapshot entries of key K
EntriesOf(K) ==
    {i \in 1..Len(statusData) : /\ statusData[i].host = K[1]
                                /\ statusData[i].status_source = K[2]
                                /\ statusData[i].status_type = K[3]}

\* C5: after any prefix of a stream of link updates, the status snapshot
\* holds exactly one entry for each (host, source, type) that has been
\* updated, and that entry's value equals the cached last value for the key.
C5_SnapshotMatchesCache ==
    \A K \in UpdatedKeys :
        /\ Cardinality(EntriesOf(K)) = 1
        /\ \A i \in EntriesOf(K) :
              /\ CacheKey(K) \in DOMAIN link[K[1]].lastValues
              /\ statusData[i].status_value = link[K[1]].lastValues[CacheKey(K)]

\* The same for the keys that share no cache slot with another updated key;
\* this one holds under SpecStatus.
C5_SnapshotMatchesCacheOwnSlot ==
    \A K \in UpdatedKeys :
        (\A K2 \in UpdatedKeys : CacheKey(K2) = CacheKey(K) => K2 = K)
        => /\ Cardinality(EntriesOf(K)) = 1
           /\ \A i \in EntriesOf(K) :
                 /\ CacheKey(K) \in DOMAIN link[K[1]].lastValues
                 /\ statusData[i].status_value
                      = link[K[1]].lastValues[CacheKey(K)]

----------------------------------------------------------------------------
(* Properties of the connection life cycle *)

LiveSockets(h) == {s \in SockIds : link[h].socks[s] \in {"CONNECTING", "OPEN"}}

\* C6: per link, at most one socket is Connecting or Open at any time, under
\* any interleaving of connect calls, reconnect-timer firings, connect
\* timeouts and close events; and a connect call made while a dial is in
\* progress or the socket is Open starts nothing and changes no state.
C6_OneLiveSocket ==
    /\ [](\A h \in Hosts : Cardinality(LiveSockets(h)) <= 1)
    /\ [][out'.op.name = "connect"
           => /\ link' = link
              /\ statusData' = statusData
              /\ out'.sent = <<>> /\ out'.events = <<>>]_vars

\* connect was just called on a link whose socket was Open, and the link has
\* one live socket.
C6_ConnectCalledWhileOpen ==
    /\ out.op.name = "connect"
    /\ IsOpen(link[out.op.host])
    /\ Cardinality(LiveSockets(out.op.host)) = 1

\* C7: whenever a started link's socket closes (failed dial, connect timeout,
\* pong miss, stale link or remote close), the link eventually starts a new
\* dial: a started link that has no socket dialing or open, its socket being
\* torn down or gone, gets to dial again.
C7_ClosedLinkDialsAgain ==
    \A h \in Hosts :
        (h \in homebaseConnections /\ ~IsOpen(link[h]) /\ ~IsConnecting(link[h]))
            ~> IsConnecting(link[h])

\* The reconnect timer has just started a dial on a link whose socket had
\* closed.
C7_RedialAfterClose ==
    /\ out.op.name = "reconnectTimer"
    /\ IsConnecting(link[out.op.host])
    /\ ~link[out.op.host].reconnectTimer

----------------------------------------------------------------------------
(* Properties of request completion *)

Settled(job, kind, value) ==
    [caller |-> job.caller, script |-> job.script, kind |-> kind,
     value |-> value]

\* The clients a TCL_ERROR frame carrying message e is addressed to
SentTclError(frames, e) ==
    {frames[i].to : i \in {j \in 1..Len(frames) :
                              /\ frames[j].type = "TCL_ERROR"
                              /\ frames[j].data = e}}

OthersStayPending(h, id) ==
    \A other \in DOMAIN link[h].requestMap \ {id} :
        /\ other \in DOMAIN link'[h].requestMap
        /\ link'[h].requestMap[other] = link[h].requestMap[other]

\* C9: with several requests in flight on one link, a response completes
\* exactly the request whose requestId it carries, with that response's
\* outcome, whatever the order of arrival, and no other request; a frame
\* whose requestId is not in the pending table changes neither the pending
\* table, the in-flight count nor the queue, and does not close the link.
C9_ResponsesMatchedByRequestId ==
    [][out'.op.name = "message"
       => LET h == out'.op.host
              msg == out'.op.msg
              L == link[h]
          IN IF msg.requestId \in DOMAIN L.requestMap
             THEN /\ out'.settled =
                       << Settled(L.requestMap[msg.requestId],
                                  IF msg.status = "ok" THEN "resolve"
                                  ELSE "reject",
                                  IF msg.status = "ok" THEN msg.result
                                  ELSE IF msg.error \in {Undefined, ""}
                                       THEN "Command failed"
                                       ELSE msg.error) >>
                  /\ msg.requestId \notin DOMAIN link'[h].requestMap
                  /\ OthersStayPending(h, msg.requestId)
             ELSE /\ out'.settled = <<>>
                  /\ link'[h].requestMap = L.requestMap
                  /\ link'[h].currentInFlight = L.currentInFlight
                  /\ link'[h].evalQueue = L.evalQueue
                  /\ link'[h].ws = L.ws
                  /\ link'[h].socks = L.socks]_vars

\* A response has just completed caller b's request while caller a's
\* request, sent before it, is still pending.
C9_LaterRequestAnsweredFirst ==
    /\ out.op.name = "message"
    /\ out.op.known
    /\ out.op.msg.requestId = 2
    /\ Len(out.settled) = 1
    /\ out.settled[1].caller = "b"
    /\ DOMAIN link[LinkHost].requestMap = {1}
    /\ link[LinkHost].requestMap[1].caller = "a"

\* C10: when a sent request's deadline expires before its response arrives,
\* the request is removed from the pending table, its caller is rejected with
\* a timeout error, the in-flight count goes down by exactly one, and waiting
\* requests are drained into the free slots if the socket is Open (and stay
\* queued if it is not).
C10_TimeoutFreesSlot ==
    [][out'.op.name = "requestTimeout"
       => LET h == out'.op.host
              id == out'.op.requestId
              L == link[h]
              queued == Len(L.evalQueue)
              free == maxInFlight - (L.currentInFlight - 1)
              taken == IF ~IsOpen(L) THEN 0
                       ELSE IF queued < free THEN queued ELSE free
          IN /\ id \in DOMAIN L.requestMap
             /\ id \notin DOMAIN link'[h].requestMap
             /\ OthersStayPending(h, id)
             /\ out'.settled[1] =
                    Settled(L.requestMap[id], "reject",
                            TimeoutMessage(L.requestMap[id].script))
             /\ Len(out'.settled) = 1
             /\ link'[h].currentInFlight = L.currentInFlight - 1 + taken
             /\ Cardinality(DOMAIN link'[h].requestMap)
                    = Cardinality(DOMAIN L.requestMap) - 1 + taken
             /\ link'[h].evalQueue = SubSeq(L.evalQueue, taken + 1, queued)
             /\ Len(out'.sent) = taken
             /\ \A i \in 1..taken :
                   /\ out'.sent[i].cmd = "eval"
                   /\ out'.sent[i].script = L.evalQueue[i].script]_vars

\* A deadline has just expired on an open link with a request waiting: the
\* caller got the timeout error and the waiting request was sent.
C10_TimeoutDrainedQueue ==
    /\ out.op.name = "requestTimeout"
    /\ out.op.wasOpen
    /\ out.op.queued > 0
    /\ Len(out.settled) = 1
    /\ out.settled[1].value = "Request timed out: ess::start"
    /\ Len(out.sent) > 0
    /\ Len(link[LinkHost].evalQueue) < out.op.queued

----------------------------------------------------------------------------
(* Properties of the queue overflow *)

\* The settlements of the last callback that carry the queue-full error
QueueFullRejections ==
    {i \in 1..Len(out.settled) : /\ out.settled[i].kind = "reject"
                                 /\ out.settled[i].value = "Request queue full"}

\* C11: an eval call that cannot be sent at once (socket not Open, or 8
\* requests in flight) while the queue already holds 200 requests is rejected
\* with the queue-full error at the call and leaves the queue, the pending
\* table and the in-flight count unchanged; and no eval call is rejected with
\* queue-full while the queue holds fewer than 200 requests.
C11_QueueFullOnlyAtCap ==
    [][out'.op.name = "eval"
       => LET h == out'.op.host
              L == link[h]
              sendable == IsOpen(L) /\ L.currentInFlight < 8
          IN /\ (~sendable /\ Len(L.evalQueue) >= 200)
                  => /\ out'.settled = <<Settled(out'.op.job, "reject",
                                                 "Request queue full")>>
                     /\ out'.sent = <<>>
                     /\ link'[h].evalQueue = L.evalQueue
                     /\ link'[h].requestMap = L.requestMap
                     /\ link'[h].currentInFlight = L.currentInFlight
             /\ Len(L.evalQueue) < 200
                  => \A i \in 1..Len(out'.settled) :
                        out'.settled[i].value # "Request queue full"]_vars

\* An eval has just been refused on a link whose socket is not Open and whose
\* queue holds 200 requests; the queue still holds 200.
C11_RefusedWhileNotOpen ==
    /\ out.op.name = "eval"
    /\ ~out.op.wasOpen
    /\ out.op.queued = 200
    /\ QueueFullRejections = {1}
    /\ Len(link[LinkHost].evalQueue) = 200

----------------------------------------------------------------------------
(* Properties of the open transition *)

CatalogSize == Len(HOMEBASE_SUBSCRIPTIONS)

\* C12: on every transition of a link to Open, initial connects and
\* reconnects alike, the link sends one subscribe (every = 1) for every key
\* of the fixed catalog and then one touch for every key of the catalog,
\* before it processes any other event: the frames the open callback sends
\* are the subscribes in catalog order followed by the touches in catalog
\* order, and nothing else.
C12_OpenSubscribesThenTouches ==
    [][out'.op.name = "open"
       => /\ Len(out'.sent) = 2 * CatalogSize
          /\ \A i \in 1..CatalogSize :
                /\ out'.sent[i] =
                      [cmd |-> "subscribe", match |-> HOMEBASE_SUBSCRIPTIONS[i],
                       every |-> 1]
                /\ out'.sent[CatalogSize + i] =
                      [cmd |-> "touch", name |-> HOMEBASE_SUBSCRIPTIONS[i]]]_vars

\* A link that had been through an earlier open or close has just opened
\* again and sent the 43 subscribes and the 43 touches.
C12_ReopenedAndSubscribed ==
    /\ out.op.name = "open"
    /\ out.op.again
    /\ Len(out.sent) = 86
    /\ out.sent[43].cmd = "subscribe"
    /\ out.sent[44].cmd = "touch"

----------------------------------------------------------------------------
(* Specification of the store's status notifications with browser sessions *)

NotifiedTypes == { <<"subject">>, <<"in_obs">> }
NotifiedValues == {"1", "2"}

\* The rows of server_status a status_changes notification can carry
StatusPayloads ==
    {StatusEntry(h, <<"ess">>, t, v) :
        h \in Hosts, t \in NotifiedTypes, v \in NotifiedValues}

NextNotify ==
    \/ startWebSocketServer
    \/ \E c \in ClientIds : BrowserConnect(c)
    \/ \E c \in ClientIds : BrowserClosing(c)
    \/ \E c \in ClientIds : BrowserClose(c)
    \/ \E payload \in StatusPayloads : StatusChangesNotification(payload)

SpecNotify == Init /\ [][NextNotify]_vars

----------------------------------------------------------------------------
(* Properties of the store notifications *)

\* The snapshot holds payload as the entry of payload's key
AlreadyApplied(payload) ==
    \E i \in 1..Len(statusData) : statusData[i] = payload

\* C13: replaying a status_changes notification whose payload equals what was
\* already applied for that key produces no additional broadcast to browsers:
\* a notification whose payload is the snapshot's entry for its key emits no
\* event.
C13_ReplayedNotificationSilent ==
    [][(/\ out'.op.name = "notification"
        /\ out'.op.channel = "status_changes"
        /\ AlreadyApplied(out'.op.payload))
       => /\ out'.events = <<>>
          /\ out'.frames = <<>>]_vars

----------------------------------------------------------------------------
(* Specification of chunked frames on one link, across closes and redials   *)

ChunkIds == {"m1"}
ChunkIndices == {Undef, Str("1"), Num(3), Num(-1)}
ChunkTotals == {Num(1), Num(2), Num(0), Num(maxChunkTotal + 1)}
ChunkDatas ==
    { <<>>, <<TextHead>>, <<TextSally>>, <<TextHead, TextSally>>, <<Blank>> }

ChunkArrives(h) ==
    /\ Len(hist) < MaxUpdates
    /\ \E s \in SockIds :
          \E msg \in ChunkFrames(ChunkIds, ChunkIndices, ChunkTotals, ChunkDatas) :
              SockChunk(h, s, msg)

NextChunk ==
    \/ getHomebaseWS(LinkHost)
    \/ ReconnectTimerFire(LinkHost)
    \/ \E s \in SockIds : SockOpen(LinkHost, s)
    \/ \E s \in SockIds : SockClose(LinkHost, s)
    \/ ChunkArrives(LinkHost)

SpecChunk == Init /\ [][NextChunk]_vars

----------------------------------------------------------------------------
(* Properties of chunk reassembly *)

\* The buffer of message id before the step, a fresh one if it has none
BufferBefore(h, id, n) ==
    IF id \in DOMAIN link[h].chunkBuffers THEN link[h].chunkBuffers[id]
    ELSE [chunks |-> [i \in 0..(n - 1) |-> <<>>], total |-> n, seen |-> {}]

\* The chunk frame that arrives is one of a well-formed message of n chunks:
\* n is in [1, 2000], the index is in 0..n-1, and so was every chunk frame
\* received for the message so far, with the same n; and a repeated chunk
\* repeats the data it brought before
WellFormedChunk(h, msg) ==
    LET n == NumberOr0(msg.totalChunks)
        i == NumberOr0(msg.chunkIndex)
        b == BufferBefore(h, msg.messageId, n.n)
    IN /\ ~n.nan /\ n.n >= 1 /\ n.n <= 2000
       /\ ~i.nan /\ i.n \in 0..(n.n - 1)
       /\ b.total = n.n
       /\ b.seen \subseteq 0..(n.n - 1)
       /\ i.n \in b.seen => b.chunks[i.n] = msg.data

\* The frame brings the last index that was missing
LastMissingIndex(h, msg) ==
    LET n == NumberOr0(msg.totalChunks).n
        i == NumberOr0(msg.chunkIndex).n
        seen == BufferBefore(h, msg.messageId, n).seen
    IN i \notin seen /\ seen \cup {i} = 0..(n - 1)

\* The chunks' data in index order, joined, with the arriving chunk in place
Concatenation(h, msg) ==
    LET n == NumberOr0(msg.totalChunks).n
        i == NumberOr0(msg.chunkIndex).n
        chunks == BufferBefore(h, msg.messageId, n).chunks
        placed == [j \in 0..(n - 1) |-> IF j = i THEN msg.data ELSE chunks[j]]
    IN JoinFrom(placed, 0)

\* The step did to the link, the snapshot and the outside world what the
\* arrival of frame as a single frame would have done
AsSingleFrame(h, frame) ==
    LET W == onMessage(World(h), frame)
    IN /\ [link'[h] EXCEPT !.chunkBuffers = EmptyMap]
            = [W.L EXCEPT !.chunkBuffers = EmptyMap]
       /\ statusData' = W.sd
       /\ hist' = W.hist
       /\ out'.dispatched = W.dispatched
       /\ out'.events = W.events
       /\ out'.frames = W.frames
       /\ out'.settled = W.settled
       /\ out'.sent = W.sent

\* C14: for a chunked message with totalChunks n in [1, 2000] whose chunks
\* 0..n-1 arrive in any order, possibly with repeated chunks, the link
\* dispatches exactly one message, equal to the parse of the concatenation of
\* the chunks' data in index order, at the moment the last missing index
\* arrives, and handles it exactly as if it had arrived as a single frame;
\* before that moment it dispatches nothing.
C14_ChunksReassembled ==
    [][(/\ out'.op.name = "chunk"
        /\ WellFormedChunk(out'.op.host, out'.op.msg))
       => LET h == out'.op.host
              msg == out'.op.msg
              parsed == JSONparse(Concatenation(h, msg))
          IN IF LastMissingIndex(h, msg) /\ parsed.ok
             THEN /\ out'.dispatched = <<parsed.value>>
                  /\ AsSingleFrame(h, parsed.value)
             ELSE out'.dispatched = <<>>]_vars

\* The same for the messages none of whose chunks is empty; this one holds
\* under SpecChunk.
C14_NonEmptyChunksReassembled ==
    [][(/\ out'.op.name = "chunk"
        /\ WellFormedChunk(out'.op.host, out'.op.msg)
        /\ out'.op.msg.data # <<>>
        /\ LET n == NumberOr0(out'.op.msg.totalChunks).n
               b == BufferBefore(out'.op.host, out'.op.msg.messageId, n)
           IN \A j \in b.seen : b.chunks[j] # <<>>)
       => LET h == out'.op.host
              msg == out'.op.msg
              parsed == JSONparse(Concatenation(h, msg))
          IN IF LastMissingIndex(h, msg) /\ parsed.ok
             THEN /\ out'.dispatched = <<parsed.value>>
                  /\ AsSingleFrame(h, parsed.value)
             ELSE out'.dispatched = <<>>]_vars

\* C15: a chunked message is never dispatched while any index in
\* 0..totalChunks-1 has not been received for its messageId, whatever chunk
\* frames (any chunkIndex, including ones outside 0..totalChunks-1, any data,
\* any repetition) have arrived: when a chunk frame leads to a dispatch, every
\* index below the message's totalChunks is the frame's own or that of a
\* frame received for the message before.
C15_NoDispatchWithMissingIndex ==
    [][(out'.op.name = "chunk" /\ out'.dispatched # <<>>)
       => LET h == out'.op.host
              msg == out'.op.msg
              i == NumberOr0(msg.chunkIndex)
              b == BufferBefore(h, msg.messageId, NumberOr0(msg.totalChunks).n)
              received == b.seen \cup (IF i.nan THEN {} ELSE {i.n})
          IN \A j \in 0..(b.total - 1) : j \in received]_vars

\* C16: a chunk buffer lives only between the first chunk of a message and
\* its dispatch within one session: after a message is dispatched its buffer
\* is gone, and after a link's close is processed the link holds no chunk
\* buffers, so that chunks received before a disconnect are never combined
\* with chunks received after the reconnect.
C16_BuffersEndWithSession ==
    [][/\ (out'.op.name = "chunk" /\ out'.dispatched # <<>>)
           => out'.op.msg.messageId
                  \notin DOMAIN link'[out'.op.host].chunkBuffers
       /\ out'.op.name = "close"
           => DOMAIN link'[out'.op.host].chunkBuffers = {}]_vars

\* The first half of C16 alone; this one holds under SpecChunk.
C16_BufferGoneAfterDispatch ==
    [][(out'.op.name = "chunk" /\ out'.dispatched # <<>>)
       => out'.op.msg.messageId
              \notin DOMAIN link'[out'.op.host].chunkBuffers]_vars

----------------------------------------------------------------------------
(* Specification of the reconnect schedule of one link: dials fail or       *)
(* succeed while time passes in steps of half the fast-retry window.        *)

MaxBackoffSteps == 4   \* half windows that pass

BackoffStep == fastRetryWindowMs \div 2

BackoffTimePasses ==
    /\ now < MaxBackoffSteps * BackoffStep
    /\ TimePasses(BackoffStep)

NextBackoff ==
    \/ getHomebaseWS(LinkHost)
    \/ ReconnectTimerFire(LinkHost)
    \/ ConnectTimeoutFire(LinkHost)
    \/ \E s \in SockIds : SockOpen(LinkHost, s)
    \/ \E s \in SockIds : SockClose(LinkHost, s)
    \/ BackoffTimePasses

SpecBackoff == Init /\ [][NextBackoff]_vars

----------------------------------------------------------------------------
(* Properties of the reconnect schedule *)

\* The time of the first disconnect since the link was last Open, for a
\* close that is processed now
FirstDisconnect(L) ==
    IF L.firstDisconnectAtMs = NoTime THEN now ELSE L.firstDisconnectAtMs

\* C17: every reconnect delay scheduled within 5 minutes of the first
\* disconnect lies in [2000, 3000] ms; every delay scheduled later equals
\* min(120000, 15000 * 2^k) plus a jitter in [0, 2000] ms, where k is the
\* number of failed attempts since the first slow-phase scheduling (k = 0
\* for the first), and so never exceeds 122000 ms; a successful Open resets
\* the failure counters and the phase, so that the next disconnect starts
\* again in the fast phase.
C17_ReconnectDelays ==
    [][/\ out'.op.name = "close"
           => LET L == link[out'.op.host]
                  elapsed == now - FirstDisconnect(L)
                  k == L.slowScheduled
                  capped == IF 15000 * 2^k > 120000 THEN 120000
                            ELSE 15000 * 2^k
              IN /\ Len(out'.armed) = 1
                 /\ out'.armed[1].timer = "reconnectTimer"
                 /\ link'[out'.op.host].reconnectTimer
                 /\ link'[out'.op.host].firstDisconnectAtMs = FirstDisconnect(L)
                 /\ elapsed < 300000
                      => out'.armed[1].ms \in 2000..3000
                 /\ elapsed >= 300000
                      => /\ out'.armed[1].ms - capped \in 0..2000
                         /\ out'.armed[1].ms <= 122000
                 /\ out'.op.was = "OPEN" => out'.armed[1].ms \in 2000..3000
       /\ out'.op.name = "open"
           => /\ link'[out'.op.host].consecutiveFailures = 0
              /\ link'[out'.op.host].firstDisconnectAtMs = NoTime
              /\ link'[out'.op.host].slowPhaseStartFailures = NoCount]_vars

\* A dial has just failed more than five minutes after the first disconnect,
\* for the fifth time in the slow phase, and the redial is scheduled with
\* the capped backoff and the largest jitter.
C17_CappedBackoffScheduled ==
    /\ out.op.name = "close"
    /\ now - link[LinkHost].firstDisconnectAtMs >= 300000
    /\ link[LinkHost].consecutiveFailures
           - link[LinkHost].slowPhaseStartFailures = 4
    /\ out.armed = << [timer |-> "reconnectTimer", ms |-> 121998] >>

----------------------------------------------------------------------------
(* Properties of the heartbeat and the stale watchdog *)

\* C18: while a link is Open, each ping arms a 5 s pong timeout, and if no
\* pong arrives before that timeout expires the socket is force-terminated,
\* which leads to a close and a scheduled reconnect: a heartbeat tick on an
\* Open link arms the pong timeout with 5000 ms; the pong timeout, which is
\* armed only as long as neither pong nor frame has arrived, terminates the
\* Open socket when it fires; and a terminated socket leads to a processed
\* close with the reconnect timer armed.
C18_PongMissTerminates ==
    /\ [][(out'.op.name = "heartbeat" /\ IsOpen(link[out'.op.host]))
          => /\ out'.armed =
                   << [timer |-> "heartbeatTimeoutHandle", ms |-> 5000] >>
             /\ link'[out'.op.host].heartbeatTimeoutHandle]_vars
    /\ [][out'.op.name \in {"pong", "message"}
          => ~link'[out'.op.host].heartbeatTimeoutHandle]_vars
    /\ [][(out'.op.name = "pongTimeout" /\ IsOpen(link[out'.op.host]))
          => link'[out'.op.host].socks[link[out'.op.host].ws] = "CLOSING"]_vars
    /\ \A h \in Hosts :
          (\E s \in SockIds : link[h].socks[s] = "CLOSING")
              ~> (/\ out.op.name = "close"
                  /\ out.op.host = h
                  /\ out.op.was = "CLOSING"
                  /\ link[h].reconnectTimer)

\* The pong timeout has just fired on a link that was Open: its socket is
\* being torn down.
C18_TerminatedOnPongMiss ==
    /\ out.op.name = "pongTimeout"
    /\ link[out.op.host].ws # NoSocket
    /\ link[out.op.host].socks[link[out.op.host].ws] = "CLOSING"
    /\ ~link[out.op.host].heartbeatTimeoutHandle

\* The stale watchdog under a clock: time passes in heartbeat intervals, and
\* the watchdog reads the silence off the clock as the code does.
MaxStaleSteps == 5

StaleTimePasses ==
    /\ now < MaxStaleSteps * heartbeatIntervalMs
    /\ TimePasses(heartbeatIntervalMs)

NextStale ==
    \/ getHomebaseWS(LinkHost)
    \/ ReconnectTimerFire(LinkHost)
    \/ \E s \in SockIds : SockOpen(LinkHost, s)
    \/ \E s \in SockIds : SockClose(LinkHost, s)
    \/ \E s \in SockIds : SockPong(LinkHost, s)
    \/ \E s \in SockIds : \E msg \in ControlFrames : SockMessage(LinkHost, s, msg)
    \/ HeartbeatTick(LinkHost)
    \/ HeartbeatTimeoutFire(LinkHost)
    \/ StaleCheckTick(LinkHost, now - link[LinkHost].lastMessageAt)
    \/ StaleTimePasses

SpecStale == Init /\ [][NextStale]_vars

\* C19: if a link is Open and no inbound frame or pong has arrived for more
\* than 30 s, the socket is force-terminated no later than the next
\* stale-watch tick, independently of the heartbeat's pong timeout:
\* lastMessageAt is the time of the last open, frame or pong of the link; the
\* watchdog is armed whenever the link is Open; and a watchdog tick on an Open
\* link that has been silent for more than 30000 ms terminates the socket,
\* whether or not a pong timeout is armed.
C19_StaleLinkTerminated ==
    /\ [][\A h \in Hosts :
            link'[h].lastMessageAt =
                IF /\ out'.op.name \in {"open", "message", "chunk", "pong"}
                   /\ out'.op.host = h
                THEN now
                ELSE link[h].lastMessageAt]_vars
    /\ [](\A h \in Hosts : IsOpen(link[h]) => link[h].staleCheckTimer)
    /\ [][(/\ out'.op.name = "staleCheck"
           /\ IsOpen(link[out'.op.host])
           /\ now - link[out'.op.host].lastMessageAt > 30000)
          => link'[out'.op.host].socks[link[out'.op.host].ws] = "CLOSING"]_vars

\* The watchdog has just terminated a link that was silent for 40 s, with no
\* pong timeout armed.
C19_SilentLinkTerminated ==
    /\ out.op.name = "staleCheck"
    /\ out.op.silentFor = 40000
    /\ now - link[out.op.host].lastMessageAt = 40000
    /\ ~link[out.op.host].heartbeatTimeoutHandle
    /\ link[out.op.host].ws # NoSocket
    /\ link[out.op.host].socks[link[out.op.host].ws] = "CLOSING"

----------------------------------------------------------------------------
(* Specification of the connectivity status: the link of LinkHost goes       *)
(* through its life cycle again and again while datapoints of catalog names  *)
(* arrive on it, one of them the device's own ess/rmt_connected; the other   *)
(* link opens and closes once.                                               *)

ConnectedNames == { <<"ess", "/", "rmt_connected">>, <<"ess", "/", "subject">> }

ConnectedValues == {"0", "1"}

ConnectedDatapointArrives(h) ==
    /\ Len(hist) < MaxUpdates
    /\ \E s \in SockIds :
           \E msg \in DatapointFrames(ConnectedNames, ConnectedValues) :
               SockMessage(h, s, msg)

NextConnected ==
    \/ \E h \in Hosts : getHomebaseWS(h)
    \/ ReconnectTimerFire(LinkHost)
    \/ ConnectTimeoutFire(LinkHost)
    \/ \E h \in Hosts : \E s \in SockIds : SockOpen(h, s)
    \/ \E h \in Hosts : \E s \in SockIds : SockClose(h, s)
    \/ ConnectedDatapointArrives(LinkHost)

SpecConnected == Init /\ [][NextConnected]_vars

NoValue == "none"

\* The value the link of h caches for (h, ess, connected)
CachedConnected(lk, h) ==
    IF CacheKey(ConnectedKey(h)) \in DOMAIN lk[h].lastValues
    THEN lk[h].lastValues[CacheKey(ConnectedKey(h))]
    ELSE NoValue

\* The values the snapshot holds for (h, ess, connected)
SnapshotConnected(sd, h) ==
    { sd[i].status_value :
        i \in { j \in 1..Len(sd) : /\ sd[j].host = h
                                   /\ sd[j].status_source = <<"ess">>
                                   /\ sd[j].status_type = <<"connected">> } }

\* C20: the cached ess/connected value of a link's host tracks the link: it
\* becomes "1" when the socket opens and stays "1" until the close is
\* processed, it is "0" after any close is processed, and every change of
\* that value is emitted to browsers as a status_changes event. The value is
\* "1" after every open step and "0" after every close step of the host, no
\* other step changes it, the snapshot holds the same value, and a step that
\* changes it broadcasts a status_changes event carrying the new value.
C20_ConnectedTracksLink ==
    /\ [](\A h \in Hosts :
            SnapshotConnected(statusData, h) =
                IF CachedConnected(link, h) = NoValue THEN {}
                ELSE {CachedConnected(link, h)})
    /\ [][\A h \in Hosts :
            CachedConnected(link', h) =
                IF out'.op.name = "open" /\ out'.op.host = h THEN "1"
                ELSE IF out'.op.name = "close" /\ out'.op.host = h THEN "0"
                ELSE CachedConnected(link, h)]_vars
    /\ [][\A h \in Hosts :
            CachedConnected(link', h) # CachedConnected(link, h)
            => \E i \in 1..Len(out'.events) :
                   out'.events[i] =
                       [type |-> "status_changes",
                        data |-> StatusEntry(h, <<"ess">>, <<"connected">>,
                                             CachedConnected(link', h))]]_vars

\* A link that had been open has just processed its close: the value went
\* from "1" to "0" and the change was broadcast.
C20_ClosedAfterOpen ==
    /\ out.op.name = "close"
    /\ out.op.was = "OPEN"
    /\ CachedConnected(link, out.op.host) = "0"
    /\ out.events =
           << [type |-> "status_changes",
               data |-> StatusEntry(out.op.host, <<"ess">>, <<"connected">>, "0")] >>

----------------------------------------------------------------------------
(* Properties of the link's timers *)

\* C21: after a link's close event is processed, none of its heartbeat,
\* pong-timeout, stale-watch, refresh or polling timers is armed, and across
\* any number of open/close cycles at most one instance of each of these
\* timers exists per link: a close step leaves every timer field unarmed and
\* no instance alive, an instance is only ever created by an open step or by
\* a ping on an Open link, and no timer ever has two live instances.
C21_TimersReleased ==
    /\ [][out'.op.name = "close"
          => \A t \in HeartbeatTimers :
                 /\ ~link'[out'.op.host][t]
                 /\ link'[out'.op.host].live[t] = 0]_vars
    /\ [][\A h \in Hosts : \A t \in HeartbeatTimers :
            link'[h].live[t] > link[h].live[t]
            => /\ out'.op.host = h
               /\ \/ out'.op.name = "open"
                  \/ out'.op.name = "heartbeat" /\ IsOpen(link[h])]_vars
    /\ [](\A h \in Hosts : \A t \in HeartbeatTimers :
            /\ link[h].live[t] <= 1
            /\ link[h][t] <=> link[h].live[t] = 1)

\* A link that was Open, its four interval timers running, has processed its
\* close: no timer is left.
C21_OpenLinkClosedNoTimerLeft ==
    /\ out.op.name = "close"
    /\ out.op.was = "OPEN"
    /\ link[out.op.host].reconnectTimer
    /\ \A t \in HeartbeatTimers : link[out.op.host].live[t] = 0

----------------------------------------------------------------------------
(* Specification of the broadcast under send failures: browsers connect,     *)
(* start closing and close, the send() of an open browser socket can start   *)
(* to throw, and the link of LinkHost opens and closes, each change of its   *)
(* ess/connected status being broadcast.                                     *)

NextBroadcast ==
    \/ startWebSocketServer
    \/ \E c \in ClientIds : BrowserConnect(c)
    \/ \E c \in ClientIds : BrowserClosing(c)
    \/ \E c \in ClientIds : BrowserClose(c)
    \/ \E c \in ClientIds : BrowserSendBreaks(c)
    \/ getHomebaseWS(LinkHost)
    \/ ReconnectTimerFire(LinkHost)
    \/ \E s \in SockIds : SockOpen(LinkHost, s)
    \/ \E s \in SockIds : SockClose(LinkHost, s)

SpecBroadcast == Init /\ [][NextBroadcast]_vars

\* The clients that are sent a frame carrying the event ev
SentTo(o, ev) ==
    { o.frames[i].to :
        i \in { j \in 1..Len(o.frames) : /\ o.frames[j].type = ev.type
                                         /\ o.frames[j].data = ev.data } }

\* C22: when an event is broadcast and sending to one open browser socket
\* fails, every other open browser socket still receives the event; a socket
\* that is not open is skipped without error. Every event a step broadcasts
\* while the server is up is sent to exactly the open browser sockets whose
\* send does not fail.
C22_BroadcastReachesOtherSockets ==
    [][wss => \A i \in 1..Len(out'.events) :
                 SentTo(out', out'.events[i]) =
                     {c \in ClientIds : clients[c] = "OPEN" /\ c \notin sendThrows}]_vars

\* While no send fails, every event a step broadcasts is sent to exactly the
\* open browser sockets.
C22_BroadcastReachesOpenSockets ==
    [][(wss /\ sendThrows = {})
          => \A i \in 1..Len(out'.events) :
                 SentTo(out', out'.events[i]) =
                     {c \in ClientIds : clients[c] = "OPEN"}]_vars

----------------------------------------------------------------------------
(* Specification of the gateway under malformed input: frames from the      *)
(* homebase, payloads of store notifications and frames from browsers arrive *)
(* as texts, some of them cut short or not JSON at all. A process that has   *)
(* ended takes no further step.                                              *)

FrameTexts == { <<TextHead, TextSally>>, <<TextHead>>, <<Blank>> }

PayloadTexts == { <<PayloadSubject, "}">>, <<PayloadSubject>> }

BrowserTexts ==
    { <<"{", MemberAddDevice, MemberIp, MemberMsg, "}">>,
      <<"{", MemberAddDevice, MemberIp, MemberMsg>>,
      <<"{", MemberHello, MemberMsg, "}">>,
      <<"null">>,
      <<"hello">> }

\* A step of a process that has not ended
Alive(A) == running /\ A

TextArrives(h) ==
    /\ Len(hist) < MaxUpdates
    /\ \E s \in SockIds : \E text \in FrameTexts : SockText(h, s, text)

NextMalformed ==
    \/ Alive(startWebSocketServer)
    \/ Alive(\E c \in ClientIds : BrowserConnect(c))
    \/ Alive(\E c \in ClientIds : BrowserClose(c))
    \/ Alive(\E c \in ClientIds : \E text \in BrowserTexts : \E stored \in BOOLEAN :
                 BrowserMessage(c, text, stored))
    \/ Alive(getHomebaseWS(LinkHost))
    \/ Alive(\E s \in SockIds : SockOpen(LinkHost, s))
    \/ Alive(\E s \in SockIds : SockClose(LinkHost, s))
    \/ Alive(TextArrives(LinkHost))
    \/ Alive(\E text \in PayloadTexts : StatusChangesText(text))

SpecMalformed == Init /\ [][NextMalformed]_vars

\* C23: no input makes the gateway stop: a malformed frame from a homebase,
\* a malformed notification payload, a malformed or non-JSON frame from a
\* browser is handled locally, and the process keeps serving. The process
\* never ends.
C23_NoInputStopsGateway == [](running)

\* A frame text from the homebase or a payload text from the store, parsable
\* or not, leaves the process running.
C23_HomebaseAndStoreTextsHandled ==
    [][out'.op.name \in {"text", "notification"} => running']_vars

----------------------------------------------------------------------------
(* Specification of the registry: getHomebaseWS is called for either address *)
(* again and again, under the shipped, empty allow-list and under one that   *)
(* permits LinkHost only, while the links go through their life cycle.       *)

AllowLists == {HOMEBASE_ALLOWED_IPS, {LinkHost}}

NextRegistry ==
    \/ \E allowed \in AllowLists : \E ip \in Hosts : getHomebaseWSCall(allowed, ip)
    \/ \E h \in Hosts : ReconnectTimerFire(h)
    \/ \E h \in Hosts : ConnectTimeoutFire(h)
    \/ \E h \in Hosts : \E s \in SockIds : SockOpen(h, s)
    \/ \E h \in Hosts : \E s \in SockIds : SockClose(h, s)

SpecRegistry == Init /\ [][NextRegistry]_vars

\* The sockets of link L that exist
Sockets(L) == {s \in SockIds : L.socks[s] # "NONE"}

----------------------------------------------------------------------------
(* Specification of device addition: the link of LinkHost, made at start-up, *)
(* goes through its life cycle while browsers connect and send well-formed   *)
(* frames, among them the intent AddDevice for the other address. No command *)
(* is sent and the process is not restarted.                                 *)

IntentTexts ==
    { <<"{", MemberAddDevice, MemberIp, MemberMsg, "}">>,
      <<"{", MemberHello, MemberMsg, "}">> }

NextAddDevice ==
    \/ getHomebaseWS(LinkHost)
    \/ ReconnectTimerFire(LinkHost)
    \/ \E s \in SockIds : SockOpen(LinkHost, s)
    \/ \E s \in SockIds : SockClose(LinkHost, s)
    \/ startWebSocketServer
    \/ \E c \in ClientIds : BrowserConnect(c)
    \/ \E c \in ClientIds : BrowserClose(c)
    \/ \E c \in ClientIds : \E text \in IntentTexts : \E stored \in BOOLEAN :
           BrowserMessage(c, text, stored)

SpecAddDevice == Init /\ [][NextAddDevice]_vars

\* C25: after a browser AddDevice intent for an address has been handled, a
\* Homebase Link for that address exists and has started dialing, without a
\* restart and without any command being sent to that address.
C25_AddDeviceStartsLink ==
    [][(out'.op.name = "browserMessage" /\ out'.op.msg_type = "AddDevice")
          => LET ip == Get(JSONparseMessage(out'.op.text).members, "ip")
             IN /\ ip \in homebaseConnections'
                /\ Sockets(link'[ip]) # {}]_vars

\* An AddDevice intent whose insert went through leaves the address in the
\* store's comm_status table.
C25_AddDeviceStoresRow ==
    [][(out'.op.name = "browserMessage" /\ out'.op.msg_type = "AddDevice"
           /\ dbCommStatus' # dbCommStatus)
          => dbCommStatus' =
                 dbCommStatus
                     \cup {Get(JSONparseMessage(out'.op.text).members, "ip")}]_vars

----------------------------------------------------------------------------
(* Specification of the performance statistics: the store notifies changes   *)
(* of the statistics of two subjects, with and without trials, while         *)
(* browsers connect and are seeded with the snapshot.                        *)

RecentStats(subject, trials) ==
    [host |-> LinkHost, status_type |-> "perf", subject |-> subject,
     state_system |-> "search", protocol |-> "circles", variant |-> "single",
     trials |-> trials]

StatsSubjects == {"sally", "bob"}

StatsTrials == {0, 5, 7}

NextPerf ==
    \/ startWebSocketServer
    \/ \E c \in ClientIds : BrowserConnect(c)
    \/ \E c \in ClientIds : BrowserClose(c)
    \/ \E subject \in StatsSubjects : \E trials \in StatsTrials :
           RecentStatsNotification(RecentStats(subject, trials))

SpecPerf == Init /\ [][NextPerf]_vars

\* The entries of the snapshot that match payload in the six key fields
MatchingStats(snapshot, payload) ==
    {i \in 1..Len(snapshot) : Matches(snapshot[i], payload, RecentStatsKey)}

\* C26: when a perf_stats_changes notification arrives with trials == 0, the
\* matching entry (same host, type, subject, system, protocol and variant) is
\* absent from the perfStats snapshot afterwards, so a browser connecting
\* later is not seeded with it.
C26_ZeroTrialsEntryDropped ==
    [][(/\ out'.op.name = "notification"
        /\ out'.op.channel = "perf_stats_changes"
        /\ out'.op.payload.trials = 0)
          => MatchingStats(perfStatsData', out'.op.payload) = {}]_vars

\* The snapshot never holds two entries with the same six key fields.
C26_OneEntryPerKey ==
    \A i, j \in 1..Len(perfStatsData) :
        Matches(perfStatsData[i], perfStatsData[j], RecentStatsKey) => i = j

----------------------------------------------------------------------------
(* Reachability prober. A probe of a device, the update of its window and    *)
(* the upsert of its row are one step; the time stamps the store assigns are *)
(* the number of the probe. ping_success is kept in hundredths.              *)

probeWindow == 100

\* pings.slice(-n) that keeps one sample more
sliceOneMore(pings, n) ==
    IF Len(pings) <= n + 1 THEN pings
    ELSE SubSeq(pings, Len(pings) - n, Len(pings))

\* pings.slice(-n)
slice(pings, n) ==
    IF Len(pings) <= n THEN pings
    ELSE SubSeq(pings, Len(pings) - n + 1, Len(pings))

\* successful.reduce((sum, p) => sum + (p.time || 0), 0), from sample i on
RECURSIVE reduceTime(_, _)
reduceTime(pings, i) ==
    IF i > Len(pings) THEN 0 ELSE pings[i].time + reduceTime(pings, i + 1)

\* Math.round(a / b) for a >= 0, b > 0
Round(a, b) == (2 * a + b) \div (2 * b)

\* parseFloat((a / b).toFixed(2)), in hundredths. Where a / b lies exactly
\* between two hundredths the digit toFixed yields depends on the binary
\* expansion of the quotient; tieUp says which way it goes.
toFixed2(a, b, tieUp) ==
    LET q == (100 * a) \div b
        r == (100 * a) % b
    IN IF 2 * r > b THEN q + 1
       ELSE IF 2 * r < b THEN q
       ELSE IF tieUp THEN q + 1 ELSE q

\* calculatePingStats(pings)
calculatePingStats(pings, tieUp) ==
    LET successful == SelectSeq(pings, LAMBDA p : p.success /\ p.time # NoLatency)
    IN [avgTime |-> IF Len(successful) > 0
                    THEN Round(reduceTime(successful, 1), Len(successful))
                    ELSE 0,
        successRate |-> IF Len(pings) > 0
                        THEN toFixed2(Len(successful), Len(pings), tieUp)
                        ELSE 0]

\* The sample pingDevices pushes for the outcome of ping.promise.probe: a
\* probe that threw is pushed as { success: false }
Sample(outcome) ==
    IF outcome.kind = "alive"
    THEN [success |-> TRUE, time |-> outcome.time]
    ELSE [success |-> FALSE, time |-> NoLatency]

\* last_ping that advances whatever the last probe gave
lastPingAlways(row, lastPingSuccessful, stamp) == stamp

\* last_ping = CASE WHEN $4 THEN CURRENT_TIMESTAMP(3) ELSE comm_status.last_ping END
lastPing(row, lastPingSuccessful, stamp) ==
    IF lastPingSuccessful THEN stamp ELSE row.last_ping

\* updateCommStatus(device, lastPingSuccessful): the row after the upsert, the
\* device having a row
updateCommStatus(row, pings, lastPingSuccessful, stamp, tieUp) ==
    LET stats == calculatePingStats(pings, tieUp)
    IN [ping_avg |-> stats.avgTime, ping_success |-> stats.successRate,
        last_ping |-> lastPing(row, lastPingSuccessful, stamp),
        server_time |-> stamp]

\* pingDevices, for one device of comm_status: its window, its row and its
\* history after the probe with the given outcome
pingDevice(device, outcome, tieUp) ==
    LET pushed == Append(pingResults[device], Sample(outcome))
        kept == slice(pushed, probeWindow)
        stamp == Len(probeLog[device]) + 1
    IN [pings |-> kept,
        row |-> updateCommStatus(commStatusRow[device], kept,
                                 kept[Len(kept)].success, stamp, tieUp),
        log |-> Append(probeLog[device], Sample(outcome))]

\* One cycle of pingDevices: every device of comm_status is probed
pingDevices(outcomes, tieUp) ==
    /\ \E after \in {[d \in Devices |-> pingDevice(d, outcomes[d], tieUp)]} :
          /\ pingResults' = [d \in Devices |-> after[d].pings]
          /\ commStatusRow' = [d \in Devices |-> after[d].row]
          /\ probeLog' = [d \in Devices |-> after[d].log]
    /\ out' = [NoOutput EXCEPT
                  !.op = [name |-> "pingDevices", outcomes |-> outcomes]]
    /\ UNCHANGED <<homebaseConnections, link, statusData, commStatus,
                   perfStatsData, wss, clients, sendThrows, running,
                   dbCommStatus, notificationClients, retryTimers, store, losses,
                   finished,
                   hist, now>>

----------------------------------------------------------------------------
(* The notification listener: connectNotificationClient and the callbacks   *)
(* it registers. N is the listener's state: the clients that exist, by      *)
(* kind, and the pending retry timers.                                      *)

add(N, kind) ==
    [N EXCEPT !.clients = [@ EXCEPT ![kind] = @ + 1]]

remove(N, kind) ==
    [N EXCEPT !.clients = [@ EXCEPT ![kind] = @ - 1]]

\* new Client(dbConfig) and connect()
connectNotificationClient(N) == add(N, Connecting)

\* setTimeout(connectNotificationClient, 5000)
retry(N) == [N EXCEPT !.timers = @ + 1]

\* connect() resolved: the four LISTEN queries are sent
connectThen(N) == add(remove(N, Connecting), Registering)

\* connect() rejected: the catch callback; the client is left behind
connectCatch(N) == retry(remove(N, Connecting))

\* All four LISTEN queries resolved
listenThen(N) == add(remove(N, Registering), Connected(4))

\* A LISTEN query rejected after k of them succeeded: the catch callback;
\* the client stays connected
listenCatch(N, k) == retry(add(remove(N, Registering), Connected(k)))

\* The 'error' callback of a client of the given kind: end() is called. The
\* pending LISTEN queries of a registering client are rejected with it.
onError(N, kind) ==
    LET ended == add(remove(N, kind), Ending)
    IN IF kind = Registering THEN retry(ended) ELSE ended

endSettledNoRetry(N) == remove(N, Ending)

\* end() resolved or rejected: both callbacks set the retry timer
endSettled(N) == retry(remove(N, Ending))

\* A step of the listener from N to its successor, recorded as op
Listener(after, op, lost) ==
    /\ notificationClients' = after.clients
    /\ retryTimers' = after.timers
    /\ losses' = losses \cup lost
    /\ out' = [NoOutput EXCEPT !.op = op]
    /\ UNCHANGED <<homebaseConnections, link, statusData, commStatus,
                   perfStatsData, wss, clients, sendThrows, running,
                   dbCommStatus, pingResults, commStatusRow, probeLog,
                   store, finished, hist, now>>

\* The listener's state now
Notifier == [clients |-> notificationClients, timers |-> retryTimers]

ConnectResolves ==
    /\ notificationClients[Connecting] > 0
    /\ store.reachable
    /\ Listener(connectThen(Notifier), [name |-> "connected"], {})

ConnectRejects ==
    /\ notificationClients[Connecting] > 0
    /\ ~store.reachable
    /\ Listener(connectCatch(Notifier), [name |-> "connectFails"], {"connect"})

ListenResolves ==
    /\ notificationClients[Registering] > 0
    /\ store.reachable
    /\ Listener(listenThen(Notifier), [name |-> "listening"], {})

ListenRejects(k) ==
    /\ notificationClients[Registering] > 0
    /\ ~store.reachable
    /\ Listener(listenCatch(Notifier, k), [name |-> "listenFails", k |-> k], {"listen"})

\* The connection of a client breaks: the client emits 'error'
ConnectionError(kind) ==
    /\ kind.phase \in {"registering", "connected"}
    /\ notificationClients[kind] > 0
    /\ ~store.reachable
    /\ Listener(onError(Notifier, kind), [name |-> "connectionError", kind |-> kind],
                {"error"})

\* The connection of a client is ended by the other side: the client emits
\* 'error' (connection terminated unexpectedly) and then 'end', for which no
\* callback is registered
ConnectionEnds(kind) ==
    /\ kind.phase \in {"registering", "connected"}
    /\ notificationClients[kind] > 0
    /\ ~store.reachable
    /\ Listener(onError(Notifier, kind), [name |-> "connectionEnds", kind |-> kind],
                {"end"})

EndSettles ==
    /\ notificationClients[Ending] > 0
    /\ Listener(endSettled(Notifier), [name |-> "endSettled"], {})

RetryTimerFires ==
    /\ retryTimers > 0
    /\ Listener(connectNotificationClient([Notifier EXCEPT !.timers = @ - 1]),
                [name |-> "retry"], {})

----------------------------------------------------------------------------
(* Specification of the notification listener: the store becomes            *)
(* unreachable at most MaxOutages times. Promises settle and timers fire.   *)

MaxOutages == 2

StoreReachable(reachable) ==
    /\ store.reachable # reachable
    /\ reachable \/ store.outages < MaxOutages
    /\ store' = [reachable |-> reachable,
                 outages |-> IF reachable THEN store.outages
                             ELSE store.outages + 1]
    /\ out' = [NoOutput EXCEPT
                  !.op = [name |-> "store", reachable |-> reachable]]
    /\ UNCHANGED <<homebaseConnections, link, statusData, commStatus,
                   perfStatsData, wss, clients, sendThrows, running,
                   dbCommStatus, pingResults, commStatusRow, probeLog,
                   notificationClients, retryTimers, losses, finished,
                   hist, now>>

NextListener ==
    \/ ConnectResolves
    \/ ConnectRejects
    \/ ListenResolves
    \/ \E k \in FailedAfter : ListenRejects(k)
    \/ \E kind \in ClientKinds : ConnectionError(kind)
    \/ \E kind \in ClientKinds : ConnectionEnds(kind)
    \/ EndSettles
    \/ RetryTimerFires
    \/ \E reachable \in BOOLEAN : StoreReachable(reachable)

SpecListener == Init /\ [][NextListener]_vars

SpecListenerFair ==
    /\ SpecListener
    /\ WF_vars(ConnectResolves)
    /\ WF_vars(ConnectRejects)
    /\ WF_vars(ListenResolves)
    /\ WF_vars(\E k \in FailedAfter : ListenRejects(k))
    /\ WF_vars(EndSettles)
    /\ WF_vars(RetryTimerFires)

----------------------------------------------------------------------------
(* Properties of the notification listener *)

\* Some client is connected and registered for all four channels
Subscribed == notificationClients[Connected(4)] > 0

\* The last step was a loss of a notification connection
Lost ==
    out.op.name \in
        {"connectFails", "listenFails", "connectionError", "connectionEnds"}

\* C29: if the store stays reachable from some time on, then after every
\* loss of the notification connection (a failed connect, a failed LISTEN,
\* an error or the end of a connection) some client is eventually again
\* connected and registered for status_changes, comm_status_changes,
\* perf_stats_changes and new_image.
C29_ListenerSubscribesAgain ==
    <>[](store.reachable) => [](Lost => <>Subscribed)

\* Every kind of loss has happened, no retry is pending, and one client has
\* just been registered for all four channels
C29_SubscribedAfterEveryLoss ==
    /\ losses = {"connect", "listen", "error", "end"}
    /\ out.op.name = "listening"
    /\ notificationClients[Connected(4)] = 1
    /\ retryTimers = 0

----------------------------------------------------------------------------
(* Specification of the prober: MaxCycles probe cycles. rig2 answers every   *)
(* probe in 25 ms. The outcome of rig1 is free in the first FreeCycles       *)
(* cycles and from the cycle on in which the window starts to drop samples;  *)
(* in between it stays what it was.                                          *)

MaxCycles == 103
FreeCycles == 3

Outcomes ==
    { [kind |-> "alive", time |-> 10], [kind |-> "alive", time |-> 25],
      [kind |-> "dead", time |-> NoLatency],
      [kind |-> "error", time |-> NoLatency] }

\* The samples the next probe of a device with the given history may give
Allowed(log, sample) ==
    IF Len(log) < FreeCycles \/ Len(log) >= probeWindow THEN TRUE
    ELSE sample = log[Len(log)]

ProbeCycle ==
    /\ Len(probeLog["rig1"]) < MaxCycles
    /\ \E outcome \in Outcomes : \E tieUp \in BOOLEAN :
          /\ Allowed(probeLog["rig1"], Sample(outcome))
          /\ pingDevices([d \in Devices |->
                             IF d = "rig1" THEN outcome
                             ELSE [kind |-> "alive", time |-> 25]],
                         tieUp)

NextProbe == ProbeCycle

SpecProbe == Init /\ [][NextProbe]_vars

----------------------------------------------------------------------------
(* Properties of the prober *)

\* The samples of the min(n, 100) most recent probes of device d
RecentProbes(log) ==
    LET n == Len(log)
        w == IF n < 100 THEN n ELSE 100
    IN [i \in 1..w |-> log[n - w + i]]

RECURSIVE TotalTime(_, _)
TotalTime(window, S) ==
    IF S = {} THEN 0
    ELSE LET i == CHOOSE x \in S : TRUE
         IN window[i].time + TotalTime(window, S \ {i})

Distance(a, b) == IF a < b THEN b - a ELSE a - b

\* The row holds the aggregates of the window: the success ratio to the
\* nearest hundredth and the mean latency of the successes to the nearest
\* integer, 0 if there is none
AggregatesOf(row, window) ==
    LET w == Len(window)
        successes == {i \in 1..w : window[i].success}
        k == Cardinality(successes)
    IN /\ 2 * Distance(row.ping_success * w, 100 * k) <= w
       /\ IF k = 0 THEN row.ping_avg = 0
          ELSE 2 * Distance(row.ping_avg * k, TotalTime(window, successes)) <= k

C28_LastPingOnlyOnSuccess ==
    [][out'.op.name = "pingDevices"
          => \A d \in Devices :
                 LET stamp == Len(probeLog[d]) + 1
                 IN /\ commStatusRow'[d].last_ping =
                           IF out'.op.outcomes[d].kind = "alive" THEN stamp
                           ELSE commStatusRow[d].last_ping
                    /\ commStatusRow'[d].server_time = stamp
                    /\ AggregatesOf(commStatusRow'[d],
                                    RecentProbes(probeLog'[d]))]_vars

\* The third probe of rig1 raised an error after two that succeeded:
\* last_ping still tells the second cycle, the rest of the row the third.
C28_ErrorKeepsLastPing ==
    /\ out.op.name = "pingDevices"
    /\ out.op.outcomes["rig1"].kind = "error"
    /\ commStatusRow["rig1"].last_ping = 2
    /\ commStatusRow["rig1"].server_time = 3
    /\ commStatusRow["rig1"].ping_success = 67

----------------------------------------------------------------------------
(* Specification of the translator: the link of LinkHost opens and one      *)
(* datapoint frame arrives, its name any sequence of up to MaxNameLen        *)
(* segments, alone or behind "ESS/git/". A segment other than "/" stands    *)
(* for a non-empty text without slash.                                      *)

MaxNameLen == 3

NameSegments == {"/", "x", "ESS", "git", "obs_active", "in_obs", "@keys"}

RECURSIVE SeqsOf(_, _)
\* The sequences of exactly n members of S
SeqsOf(S, n) ==
    IF n = 0 THEN {<<>>}
    ELSE {Append(q, x) : q \in SeqsOf(S, n - 1), x \in S}

ShortNames == UNION {SeqsOf(NameSegments, n) : n \in 1..MaxNameLen}

TranslatorNames ==
    ShortNames
    \cup {<<"ESS", "/", "git", "/">> \o rest : rest \in ShortNames \cup {<<>>}}

TranslatedDatapointArrives(h) ==
    /\ hist = <<>>
    /\ \E s \in SockIds :
          \E msg \in DatapointFrames(TranslatorNames, StatusValues) :
              SockMessage(h, s, msg)

NextTranslate ==
    \/ getHomebaseWS(LinkHost)
    \/ \E s \in SockIds : SockOpen(LinkHost, s)
    \/ TranslatedDatapointArrives(LinkHost)

SpecTranslate == Init /\ [][NextTranslate]_vars

----------------------------------------------------------------------------
(* Properties of the translator *)

Lower(name) == [i \in 1..Len(name) |-> toLowerCase(name[i])]

\* The rows of the translation table, in priority order, as a relation
\* between a name with its raw value and a translated update
TableRow(name, data, source, type, value) ==
    IF Lower(name) = <<"@keys">>
    THEN source = <<"system">> /\ type = <<"@keys">> /\ value = data
    ELSE IF Len(name) >= 4
            /\ Lower(SubSeq(name, 1, 4)) = <<"ess", "/", "git", "/">>
    THEN source = <<"git">> /\ SubSeq(name, 1, 4) \o type = name
         /\ value = data
    ELSE IF Lower(name) \in {<<"ess", "/", "obs_active">>,
                             <<"ess", "/", "in_obs">>}
    THEN source = <<"ess">> /\ type = <<"in_obs">>
         /\ value = (IF data = "abc" THEN "0" ELSE "1")
    ELSE IF name[1] # "/" /\ \E i \in 1..Len(name) : name[i] = "/"
    THEN /\ source \o <<"/">> \o type = name
         /\ \A i \in 1..Len(source) : source[i] # "/"
         /\ value = data
    ELSE IF \A i \in 1..Len(name) : name[i] # "/"
    THEN source = <<"system">> /\ type = name /\ value = data
    ELSE TRUE

\* The name of the datapoint frame of the step, and the update it became
IsTranslation(op) == op.name = "message" /\ op.msg.type = "datapoint"

\* C30: for every non-empty datapoint name the translator yields a source
\* and a type, neither of them empty, and they are the ones of the first
\* table row the name fits: @keys gives (system, @keys); ess/git/x gives
\* (git, x); ess/obs_active and ess/in_obs give (ess, in_obs) with the value
\* as a number, 0 when it does not parse; a/rest gives (a, rest); a name
\* without slash gives (system, name).
C30_TranslatorTotal ==
    [][IsTranslation(out'.op) /\ out'.op.msg.name # <<>>
       => LET update == hist'[Len(hist')]
          IN /\ Len(hist') = Len(hist) + 1
             /\ update.key[2] # <<>>
             /\ update.key[3] # <<>>
             /\ TableRow(out'.op.msg.name, out'.op.msg.data,
                         update.key[2], update.key[3], update.value)]_vars

\* C30, without the demand that the type is not empty: every name is
\* translated to a non-empty source and to the type of its table row.
C30_TableFollowed ==
    [][IsTranslation(out'.op) /\ out'.op.msg.name # <<>>
       => LET update == hist'[Len(hist')]
          IN /\ Len(hist') = Len(hist) + 1
             /\ update.key[2] # <<>>
             /\ TableRow(out'.op.msg.name, out'.op.msg.data,
                         update.key[2], update.key[3], update.value)]_vars

----------------------------------------------------------------------------
(* Specification of late responses and late deadlines: the request path of  *)
(* the link of LinkHost with the history of its requestIds kept. The         *)
(* deadline timer of a request is not cleared when its response is handled, *)
(* so it fires later and finds no entry.                                    *)

TrackedEval(h, job) ==
    /\ h \in homebaseConnections
    /\ CommitTracked(eval(World(h), job),
                     [name |-> "eval", host |-> h, job |-> job,
                      wasOpen |-> IsOpen(link[h]),
                      inFlight |-> link[h].currentInFlight,
                      queued |-> Len(link[h].evalQueue)], "sent")
    /\ UNCHANGED homebaseConnections

TrackedMessage(h, s, msg) ==
    /\ link[h].socks[s] = "OPEN"
    /\ CommitTracked(onMessage(World(h), msg),
                     [name |-> "message", host |-> h, sock |-> s, msg |-> msg,
                      known |-> msg.requestId \in DOMAIN link[h].requestMap],
                     "answered")
    /\ UNCHANGED homebaseConnections

TrackedTimeout(h, requestId) ==
    /\ requestId \in DOMAIN link[h].requestMap
    /\ CommitTracked(onRequestTimeout(World(h), requestId),
                     [name |-> "requestTimeout", host |-> h,
                      requestId |-> requestId,
                      job |-> link[h].requestMap[requestId],
                      wasOpen |-> IsOpen(link[h]),
                      inFlight |-> link[h].currentInFlight,
                      queued |-> Len(link[h].evalQueue)], "expired")
    /\ UNCHANGED homebaseConnections

\* The deadline of a request that a response has completed expires
LateTimeoutFire(h, requestId) ==
    /\ requestId \in DOMAIN finished
    /\ finished[requestId] = "answered"
    /\ CommitTracked(onRequestTimeout(World(h), requestId),
                     [name |-> "lateTimeout", host |-> h,
                      requestId |-> requestId,
                      inFlight |-> link[h].currentInFlight], "expired")
    /\ UNCHANGED homebaseConnections

TrackedBoundedEval(h) ==
    /\ Outstanding(h) < MaxOutstanding
    /\ \E job \in Jobs(Callers) : TrackedEval(h, job)

\* A response, ok or error, with any requestId
TrackedFrame(h) ==
    \E s \in SockIds : \E id \in 1..(MaxOutstanding + 1) :
        \E msg \in {Frame(id, "ok", "3.3", Undefined, Undefined, <<>>, ""),
                    Frame(id, "error", Undefined, "bad script", Undefined,
                          <<>>, "")} :
            TrackedMessage(h, s, msg)

NextLate ==
    \/ getHomebaseWS(LinkHost)
    \/ ReconnectTimerFire(LinkHost)
    \/ \E s \in SockIds : SockOpen(LinkHost, s)
    \/ \E s \in SockIds : SockClose(LinkHost, s)
    \/ TrackedBoundedEval(LinkHost)
    \/ TrackedFrame(LinkHost)
    \/ \E id \in RequestIds : TrackedTimeout(LinkHost, id)
    \/ \E id \in RequestIds : LateTimeoutFire(LinkHost, id)

SpecLate == Init /\ [][NextLate]_vars

----------------------------------------------------------------------------
(* Properties of late responses and late deadlines *)

\* The requestIds a step takes out of the pending table of host h
Released(h) == DOMAIN link[h].requestMap \ DOMAIN link'[h].requestMap

\* The eval frames a step sends
EvalsSent(o) == Cardinality({i \in 1..Len(o.sent) : o.sent[i].cmd = "eval"})

\* C31: a response, a deadline and a late deadline each complete at most
\* one request, one that is in the pending table, and give back exactly its
\* slot; a response for a requestId whose deadline has fired, and a deadline
\* that fires after its response was handled, complete nothing and change
\* neither the pending table nor the in-flight count.
C31_CompletedOnce ==
    [][out'.op.name \in {"message", "requestTimeout", "lateTimeout"}
       => LET h == out'.op.host
              id == IF out'.op.name = "message" THEN out'.op.msg.requestId
                    ELSE out'.op.requestId
          IN /\ Released(h) \subseteq {id}
             /\ Len(out'.settled) = Cardinality(Released(h))
             /\ link'[h].currentInFlight - EvalsSent(out')
                    = link[h].currentInFlight - Cardinality(Released(h))
             /\ id \in DOMAIN finished
                   => /\ out'.settled = <<>>
                      /\ link'[h].requestMap = link[h].requestMap
                      /\ link'[h].currentInFlight = link[h].currentInFlight
             /\ Released(h) # {}
                   => /\ id \notin DOMAIN finished
                      /\ id \in DOMAIN finished']_vars

\* A response has just arrived for a requestId whose deadline had fired,
\* while another request is pending
C31_ResponseAfterDeadline ==
    /\ out.op.name = "message"
    /\ ~out.op.known
    /\ out.op.msg.requestId \in DOMAIN finished
    /\ finished[out.op.msg.requestId] = "expired"
    /\ link[LinkHost].currentInFlight = 1
    /\ out.settled = <<>>

\* The deadline of an answered request has just fired while another request
\* is pending
C31_DeadlineAfterResponse ==
    /\ out.op.name = "lateTimeout"
    /\ out.op.inFlight = 1
    /\ link[LinkHost].currentInFlight = 1
    /\ out.settled = <<>>

----------------------------------------------------------------------------
(* Order of sending *)

\* The eval frames among the frames a step sent, in order
EvalFrames(sent) == SelectSeq(sent, LAMBDA f : f.cmd = "eval")

\* The requests a step sent, in order, are the first of the given line of
\* waiting requests
SentFromHeadOf(h, o, line) ==
    LET frames == EvalFrames(o.sent)
    IN /\ Len(frames) <= Len(line)
       /\ \A i \in 1..Len(frames) :
             /\ frames[i].requestId \in DOMAIN link'[h].requestMap
             /\ link'[h].requestMap[frames[i].requestId] = line[i]

\* C32: the requests of a link are sent in the order eval was called: what
\* a step sends is the head of the queue, in queue order, and a call of eval
\* sends its own request only behind every request that was waiting.
C32_SentInSubmissionOrder ==
    [][out'.op.name \in {"eval", "message", "requestTimeout", "open"}
       => LET h == out'.op.host
          IN SentFromHeadOf(h, out',
                 IF out'.op.name = "eval"
                 THEN Append(link[h].evalQueue, out'.op.job)
                 ELSE link[h].evalQueue)]_vars

\* C32, for the steps that drain the queue: a response and a deadline send
\* the head of the queue in queue order.
C32_DrainTakesQueueHead ==
    [][out'.op.name \in {"message", "requestTimeout", "open"}
       => SentFromHeadOf(out'.op.host, out', link[out'.op.host].evalQueue)]_vars

----------------------------------------------------------------------------
(* Specification of the two writers of the status snapshot: the link of     *)
(* LinkHost is open and MaxUpdates datapoints for ess/status and             *)
(* ess/git/status arrive on it, interleaved with status_changes and          *)
(* new_image notifications for the same host and the same two keys.          *)

MixedNames == { <<"ess", "/", "status">>, <<"ess", "/", "git", "/", "status">> }

MixedValues == {"1", "2"}

MixedPayloads ==
    {StatusEntry(LinkHost, source, <<"status">>, v) :
        source \in { <<"ess">>, <<"git">> }, v \in MixedValues}

MixedDatapointArrives(h) ==
    /\ Len(hist) < MaxUpdates
    /\ \E s \in SockIds : \E msg \in DatapointFrames(MixedNames, MixedValues) :
           SockMessage(h, s, msg)

ImagePayloads ==
    {[host |-> LinkHost, status_type |-> <<"status">>],
     [host |-> LinkHost, status_type |-> <<>>]}

NextMixed ==
    \/ getHomebaseWS(LinkHost)
    \/ \E s \in SockIds : SockOpen(LinkHost, s)
    \/ MixedDatapointArrives(LinkHost)
    \/ \E payload \in MixedPayloads : StatusChangesNotification(payload)
    \/ \E parsedPayload \in ImagePayloads :
          \E rows \in {<<>>} \cup {<<row>> : row \in MixedPayloads} :
              NewImageNotification(parsedPayload, rows)

SpecMixed == Init /\ [][NextMixed]_vars

----------------------------------------------------------------------------
(* Properties of the two writers of the status snapshot *)

\* The snapshot entries of the key (host, source, type)
Entries(sd, host, source, type) ==
    {i \in 1..Len(sd) : /\ sd[i].host = host
                        /\ sd[i].status_source = source
                        /\ sd[i].status_type = type}

\* C33: whenever the event processed last for a key is a link datapoint
\* with value v, the snapshot holds an entry for the key and its value is v:
\* no datapoint is dropped as a duplicate while the snapshot holds another
\* value for its key.
C33_DatapointReachesSnapshot ==
    [][IsTranslation(out'.op)
       => LET update == hist'[Len(hist')]
              mine == Entries(statusData', update.key[1], update.key[2],
                              update.key[3])
          IN /\ mine # {}
             /\ \A i \in mine : statusData'[i].status_value = update.value]_vars

KeyOf(entry) == <<entry.host, entry.status_source, entry.status_type>>

\* The rows a notification step applies to the snapshot
Applied(op) ==
    IF op.name # "notification" THEN {}
    ELSE IF op.channel = "status_changes" THEN {op.payload}
    ELSE IF op.channel = "new_image"
    THEN {op.rows[i] : i \in 1..Len(op.rows)}
    ELSE {}

\* C34: the status snapshot never holds two entries with the same (host,
\* source, type), and a status_changes or new_image notification for one
\* (host, source, type) leaves the entries of every other key in place and
\* as they were.
C34_OneEntryPerKeyOthersKept ==
    [][/\ \A i, j \in 1..Len(statusData') :
             KeyOf(statusData'[i]) = KeyOf(statusData'[j]) => i = j
       /\ \A row \in Applied(out'.op) :
             \A i \in 1..Len(statusData) :
                 KeyOf(statusData[i]) # KeyOf(row)
                 => /\ i <= Len(statusData')
                    /\ statusData'[i] = statusData[i]]_vars

\* C34, with the key the callbacks compare: a notification leaves in place
\* the entries of every other (host, type).
C34_OtherHostTypeKept ==
    [][\A row \in Applied(out'.op) :
          \A i \in 1..Len(statusData) :
              (statusData[i].host # row.host
                  \/ statusData[i].status_type # row.status_type)
              => /\ i <= Len(statusData')
                 /\ statusData'[i] = statusData[i]]_vars

----------------------------------------------------------------------------
(* Specification of the in-flight count: the request path of the link of    *)
(* LinkHost with closes and reconnects, and with calls of eval whose        *)
(* ws.send throws although the socket is open.                              *)

\* attemptImmediate that gives the slot back in its catch block but leaves
\* the entry in the pending table
attemptImmediateThrowsSlotBack(W, job) ==
    LET requestId == genRequestId(W)
    IN Settle([W EXCEPT !.L.requestMap = MapSet(@, requestId, job)],
              job, "reject", "send failed")

\* eval's attemptImmediate when this.send throws: the deadline is armed, the
\* entry is in the pending table and counted, and the catch block rejects
\* the caller
attemptImmediateThrows(W, job) ==
    LET requestId == genRequestId(W)
    IN Settle([W EXCEPT !.L.requestMap = MapSet(@, requestId, job),
                        !.L.currentInFlight = @ + 1],
              job, "reject", "send failed")

\* A caller invokes eval on the open link of host h, with capacity free, and
\* ws.send throws
EvalSendThrows(h, job) ==
    /\ h \in homebaseConnections
    /\ IsOpen(link[h])
    /\ link[h].currentInFlight < maxInFlight
    /\ Commit(attemptImmediateThrows(World(h), job),
              [name |-> "evalSendThrows", host |-> h, job |-> job,
               inFlight |-> link[h].currentInFlight])
    /\ UNCHANGED homebaseConnections

BoundedEvalSendThrows(h) ==
    /\ Outstanding(h) < MaxOutstanding
    /\ \E job \in Jobs(Callers) : EvalSendThrows(h, job)

NextCount ==
    \/ LifeCycle(LinkHost)
    \/ BoundedEval(LinkHost)
    \/ BoundedEvalSendThrows(LinkHost)
    \/ AnyFrame(LinkHost)
    \/ \E id \in RequestIds : RequestTimeoutFire(LinkHost, id)

SpecCount == Init /\ [][NextCount]_vars

\* C35: in every reachable state of a link its in-flight count is the number
\* of entries of its pending table, and so never negative, after any
\* interleaving of sends, failed sends, responses, deadlines, closes and
\* reconnects.
C35_CountIsTableSize ==
    \A h \in Hosts :
        /\ link[h].currentInFlight = Cardinality(DOMAIN link[h].requestMap)
        /\ link[h].currentInFlight >= 0

\* A send has just failed on an open link that has a request pending and
\* another still waiting in the queue: the failed request is counted and is
\* in the table
C35_FailedSendCounted ==
    /\ out.op.name = "evalSendThrows"
    /\ out.op.inFlight = 1
    /\ link[LinkHost].currentInFlight = 2
    /\ Len(link[LinkHost].evalQueue) = 1
    /\ Len(out.settled) = 1

\* The sockets of the link of h that are CONNECTING or OPEN
DialedSockets(h) ==
    {s \in SockIds : link[h].socks[s] \in {"CONNECTING", "OPEN"}}

\* C36: per link, a pending reconnect timer never coexists with a socket
\* that is CONNECTING or OPEN, and at most one reconnect timer is pending
\* (the handle in reconnectTimer being that timer), after any order of close
\* events, timer firings and connect calls.
C36_TimerOrSocket ==
    \A h \in Hosts :
        /\ link[h].reconnectPending <= 1
        /\ link[h].reconnectTimer <=> (link[h].reconnectPending = 1)
        /\ (link[h].reconnectPending > 0 \/ link[h].reconnectTimer)
               => DialedSockets(h) = {}

\* The reconnect timer armed after a second failure in a row has just fired:
\* the link dials again and no reconnect timer is left
C36_RedialedAfterTimer ==
    /\ out.op.name = "reconnectTimer"
    /\ link[LinkHost].consecutiveFailures >= 2
    /\ link[LinkHost].reconnectPending = 0
    /\ ~link[LinkHost].reconnectTimer
    /\ DialedSockets(LinkHost) # {}

----------------------------------------------------------------------------
(* Specification of one link with the callers the program has: browser     *)
(* commands and the juicer poll. A caller is the promise eval returned,    *)
(* with the callbacks attached to it; these run when the promise settles,  *)
(* before any other callback of the process.                               *)

CommandKinds == {"ess", "git"}
PollKinds == {"pump_voltage", "charging"}

Caller(kind, clientWs) == [kind |-> kind, clientWs |-> clientWs]

\* kind === 'ess' ? payload : `send git {${payload}}`
CommandScript(kind, payload) ==
    IF kind = "ess" THEN payload
    ELSE CASE payload = "pull" -> "send git {pull}"
           [] OTHER -> "send git {<payload>}"

CommandPayload(kind) == IF kind = "ess" THEN "ess::start" ELSE "pull"

PollScript(kind) ==
    IF kind = "pump_voltage" THEN "[set ::ess::current(juicer)] get pump_voltage"
    ELSE "[set ::ess::current(juicer)] get charging"

\* The results a homebase gives: a number, a boolean, something else
PollResults == {"3", "true", "junk"}

\* The poll's reading of a pump_voltage result: parseFloat, null when NaN
pumpVoltage(result) ==
    IF result = "3" THEN Num(3) ELSE Undef

\* The poll's reading of a charging result
chargingStr(result) ==
    CASE result \in {"true", "false"} -> Str(result)
      [] result = "3" -> Str(String(3))
      [] OTHER -> Undef

\* clientWs.send(frame) from a callback of a command's promise
sendToClient(W, c, type, data) ==
    IF wss /\ clients[c] = "OPEN"
    THEN [W EXCEPT !.frames = Append(@, [to |-> c, type |-> type,
                                         data |-> data])]
    ELSE W

\* The callbacks handleEssGitCommand attaches: .then sends cmd_ok; .catch
\* sends cmd_error and broadcasts TCL_ERROR. A send that throws inside .then
\* passes to .catch, whose send throws again before the broadcast.
commandSettled(W, s) ==
    LET c == s.caller.clientWs
    IN IF clients[c] = "OPEN" /\ c \in sendThrows THEN W
       ELSE IF s.kind = "resolve"
            THEN sendToClient(W, c, "cmd_ok", s.value)
            ELSE broadcastToWebSocketClients(
                     sendToClient(W, c, "cmd_error", s.value),
                     "TCL_ERROR", s.value)

\* The callbacks the juicer poll attaches: .then writes system/24v-v or
\* system/charging when the result reads as a value; .catch(() => {})
pollSettled(W, s) ==
    IF s.kind = "reject" THEN W
    ELSE LET value == IF s.caller.kind = "pump_voltage"
                      THEN pumpVoltage(s.value) ELSE chargingStr(s.value)
             type == IF s.caller.kind = "pump_voltage"
                     THEN <<"24v-v">> ELSE <<"charging">>
         IN IF value = Undef THEN W
            ELSE updateLocalStatusAndBroadcast(W, W.host, <<"system">>,
                                               type, value)

RECURSIVE SettledFrom(_, _)
\* The callbacks of the promises a handler settled, in the order it settled
\* them, from the i-th on
SettledFrom(W, i) ==
    IF i > Len(W.settled) THEN W
    ELSE LET s == W.settled[i]
         IN SettledFrom(IF s.caller.kind \in CommandKinds
                        THEN commandSettled(W, s)
                        ELSE pollSettled(W, s),
                        i + 1)

PromiseCallbacks(W) == SettledFrom(W, 1)

\* handleEssGitCommand(kind, ip, payload, clientWs): the link of ip is looked
\* up or made, the script is handed to eval, and the callbacks are attached
handleEssGitCommand(W, kind, payload, c) ==
    LET r == ensure(HOMEBASE_ALLOWED_IPS, W.host, W.L)
    IN IF r.returns # "link"
       THEN sendToClient(W, c, "error", "HBWS not allowed or unavailable")
       ELSE PromiseCallbacks(
                eval([W EXCEPT !.L = r.L],
                     Job(Caller(kind, c), CommandScript(kind, payload), 15000)))

\* A browser session sends esscmd or gitcmd for the address ip
BrowserCommand(c, kind, ip) ==
    /\ wss
    /\ clients[c] = "OPEN"
    /\ Outstanding(ip) < MaxCommands
    /\ CanConnect(link[ip])
    /\ homebaseConnections' = homebaseConnections \cup {ip}
    /\ Commit(handleEssGitCommand(World(ip), kind, CommandPayload(kind), c),
              [name |-> "command", host |-> ip, kind |-> kind, client |-> c,
               created |-> ip \notin homebaseConnections,
               wasOpen |-> IsOpen(link[ip])])

\* The callback of pollJuicerTimer: two evals when the socket is OPEN
pollJuicer(W) ==
    IF ~IsOpen(W.L) THEN W
    ELSE PromiseCallbacks(
             eval(eval(W, Job(Caller("pump_voltage", 0),
                              PollScript("pump_voltage"), 5000)),
                  Job(Caller("charging", 0), PollScript("charging"), 5000)))

\* The 10 s interval of the juicer poll ticks
PollJuicerTick(h) ==
    /\ link[h].pollJuicerTimer
    /\ Outstanding(h) < MaxCommands
    /\ Commit(pollJuicer(World(h)),
              [name |-> "pollJuicer", host |-> h, wasOpen |-> IsOpen(link[h])])
    /\ UNCHANGED homebaseConnections

\* A response arrives for a request of a command or of the poll
CallerFrame(h) ==
    \E s \in SockIds :
        \E msg \in
            {Frame(id, "ok", r, Undefined, Undefined, <<>>, "") :
                id \in 1..(MaxCommands + 2), r \in PollResults}
            \cup {Frame(id, "error", Undefined, e, Undefined, <<>>, "") :
                    id \in 1..(MaxCommands + 2), e \in {"bad script", Undefined}} :
            /\ link[h].socks[s] = "OPEN"
            /\ Commit(PromiseCallbacks(onMessage(World(h), msg)),
                      [name |-> "message", host |-> h, sock |-> s, msg |-> msg,
                       known |-> msg.requestId \in DOMAIN link[h].requestMap,
                       kind |-> IF msg.requestId \in DOMAIN link[h].requestMap
                                THEN link[h].requestMap[msg.requestId].caller.kind
                                ELSE "none",
                       sd |-> statusData, socks |-> link[h].socks])
            /\ UNCHANGED homebaseConnections

\* The deadline of a request of a command or of the poll expires
CallerTimeout(h, requestId) ==
    /\ requestId \in DOMAIN link[h].requestMap
    /\ Commit(PromiseCallbacks(onRequestTimeout(World(h), requestId)),
              [name |-> "requestTimeout", host |-> h, requestId |-> requestId,
               kind |-> link[h].requestMap[requestId].caller.kind,
               sd |-> statusData, socks |-> link[h].socks])
    /\ UNCHANGED homebaseConnections

NextCallers ==
    \/ LifeCycle(LinkHost)
    \/ startWebSocketServer
    \/ \E c \in ClientIds : BrowserConnect(c)
    \/ \E c \in ClientIds : BrowserClose(c)
    \/ \E c \in ClientIds : \E kind \in CommandKinds :
           BrowserCommand(c, kind, LinkHost)
    \/ PollJuicerTick(LinkHost)
    \/ CallerFrame(LinkHost)
    \/ \E id \in RequestIds : CallerTimeout(LinkHost, id)

SpecCallers == Init /\ [][NextCallers]_vars

\* The TCL_ERROR frames a step sent to browser session c
TclErrorsTo(o, c) ==
    {i \in 1..Len(o.frames) : o.frames[i].to = c /\ o.frames[i].type = "TCL_ERROR"}

\* The TCL_ERROR broadcasts a step made
TclErrors(o) == {i \in 1..Len(o.events) : o.events[i].type = "TCL_ERROR"}

\* The step handled a response with status error for a pending request
ErrorResponse(o) ==
    /\ o.op.name = "message"
    /\ o.op.known
    /\ o.op.msg.status = "error"

\* C37: a TCL_ERROR event goes to the browsers only in a step that handles a
\* response with status error for a pending request, and such a step makes
\* one TCL_ERROR broadcast, one frame to each open browser session; every
\* other step (a deadline, a command, a poll) makes none.
C37_TclErrorOncePerErrorResponse ==
    [][ /\ Cardinality(TclErrors(out')) = IF ErrorResponse(out') THEN 1 ELSE 0
        /\ \A c \in ClientIds :
              Cardinality(TclErrorsTo(out', c)) =
                  IF ErrorResponse(out') /\ wss /\ clients[c] = "OPEN"
                  THEN 1 ELSE 0 ]_vars

\* The step rejected the promise of a poll eval
FailedPoll(o) ==
    \E i \in 1..Len(o.settled) :
        o.settled[i].kind = "reject" /\ o.settled[i].caller.kind \in PollKinds

\* C38: a step in which a poll eval fails (error response, deadline, full
\* queue) changes no status entry, sends no frame to any browser session and
\* leaves the link's sockets as they are.
C38_FailedPollSwallowed ==
    [][ FailedPoll(out') =>
            /\ statusData' = statusData
            /\ out'.frames = <<>>
            /\ link'[LinkHost].socks = link[LinkHost].socks
            /\ link'[LinkHost].ws = link[LinkHost].ws ]_vars

\* What does hold of a failed poll: the snapshot, the cache and the link's
\* sockets are left as they are, and a deadline sends nothing to the browsers
C38_FailedPollKeepsStatusAndLink ==
    [][ FailedPoll(out') =>
            /\ statusData' = statusData
            /\ link'[LinkHost].lastValues = link[LinkHost].lastValues
            /\ link'[LinkHost].socks = link[LinkHost].socks
            /\ link'[LinkHost].ws = link[LinkHost].ws
            /\ out'.op.name = "requestTimeout" => out'.frames = <<>> ]_vars

\* The clients that are connected and registered for some channel
ListeningClients ==
    {k \in FailedAfter \cup {4} :
        Listening(k) # {} /\ notificationClients[Connected(k)] > 0}

\* How many clients are connected and registered for channel ch
ListenersOf(ch) ==
    LET kinds == {k \in FailedAfter \cup {4} : ch \in Listening(k)}
        RECURSIVE Sum(_)
        Sum(S) == IF S = {} THEN 0
                  ELSE LET k == CHOOSE x \in S : TRUE
                       IN notificationClients[Connected(k)] + Sum(S \ {k})
    IN Sum(kinds)

\* C39: at any time at most one notification client is connected and
\* listening on a channel, so that a notification of the store is handled
\* once, and at most one reconnect of the listener is scheduled.
C39_OneListenerOneRetry ==
    /\ \A i \in 1..Len(Channels) : ListenersOf(Channels[i]) <= 1
    /\ retryTimers <= 1

----------------------------------------------------------------------------
(* Specification of link creation: the start-up query reads the addresses   *)
(* of comm_status and makes their links; browsers add the device 10.0.0.2   *)
(* and send commands for either address.                                    *)

\* The start-up block: SELECT device, address FROM comm_status has returned
\* the rows, and getHomebaseWS is called for each address
bootstrap(rows, lk) ==
    [h \in Hosts |->
        IF h \in rows
        THEN ensure(HOMEBASE_ALLOWED_IPS, h, lk[h]).L
        ELSE lk[h]]

Bootstrap ==
    /\ dbCommStatus # {}
    /\ dbCommStatus \cap homebaseConnections = {}
    /\ \A h \in dbCommStatus : CanConnect(link[h])
    /\ link' = bootstrap(dbCommStatus, link)
    /\ homebaseConnections' = homebaseConnections \cup dbCommStatus
    /\ out' = [NoOutput EXCEPT
                  !.op = [name |-> "bootstrap", rows |-> dbCommStatus]]
    /\ UNCHANGED <<statusData, commStatus, perfStatsData, wss, clients,
                   sendThrows, running, dbCommStatus, pingResults,
                   commStatusRow, probeLog, notificationClients, retryTimers,
                   store, losses, finished, hist, now>>

NextDial ==
    \/ startWebSocketServer
    \/ \E c \in ClientIds : BrowserConnect(c)
    \/ \E c \in ClientIds : \E stored \in BOOLEAN :
           BrowserMessage(c, <<"{", MemberAddDevice, MemberIp, MemberMsg, "}">>,
                          stored)
    \/ Bootstrap
    \/ \E c \in ClientIds : \E kind \in CommandKinds : \E ip \in Hosts :
           BrowserCommand(c, kind, ip)
    \/ \E h \in Hosts : \E s \in SockIds : SockOpen(h, s)
    \/ \E h \in Hosts : \E s \in SockIds : SockClose(h, s)
    \/ \E h \in Hosts : ReconnectTimerFire(h)
    \/ \E h \in Hosts : \E id \in RequestIds : CallerTimeout(h, id)

SpecDial == Init /\ [][NextDial]_vars

\* C40: a link exists, and a socket has been dialed, only for an address
\* that has a row in the device registry; a browser command for another
\* address makes no link.
C40_LinksOnlyForRegistered ==
    \A h \in Hosts :
        (h \in homebaseConnections \/ Sockets(link[h]) # {})
            => h \in dbCommStatus

\* What does hold: the start-up block makes links for registered addresses
\* only, one for each
C40_BootstrapLinksRegistered ==
    [][ out'.op.name = "bootstrap" =>
            /\ homebaseConnections' = homebaseConnections \cup dbCommStatus
            /\ \A h \in Hosts :
                  IF h \in dbCommStatus
                  THEN IsConnecting(link'[h]) /\ link'[h].constructed = 1
                  ELSE link'[h] = link[h] ]_vars

====
